---------------------------- MODULE Spec2Model ----------------------------
(* crab-vault: the authorization core.                                     *)
(*   - PathRule / PathRulesCache::should_not_protect  (bypass rules)       *)
(*   - AuthMiddleware::call / extract_and_validate_token                   *)
(*   - JwtEncoder::encode / JwtDecoder::decode (crab-vault-auth)           *)
(* Strings that are matched against glob patterns are sequences of         *)
(* one-character strings; every other string is an atom.                   *)
EXTENDS Integers, Sequences, FiniteSets, TLC

VARIABLES
    path_rules,   \* AuthConfig.path_rules: the configured Vec<PathRule>
    rl,           \* SpecRules: the last bypass query and its answer
    mw,           \* SpecMw: the request in flight in AuthMiddleware and where it is
    inner_calls,  \* SpecMw: how often the inner service was called for the request
    jw            \* SpecJwt: encoder, decoder, clock, token in flight, last result

vars == <<path_rules, rl, mw, inner_calls, jw>>

None == "None"

(***************************************************************************)
(* Bounds                                                                  *)
(***************************************************************************)
MaxRules == 2      \* path rules in a configuration
MaxPathLen == 3    \* characters of a request path queried against the rules
MaxSize == 1       \* largest max_size a token's Permission carries
MaxLen == 2        \* largest Content-Length declared, and largest body received

(***************************************************************************)
(* glob::Pattern (the crate the repository matches paths with), default    *)
(* MatchOptions: case sensitive, `*` and `?` also match the separator.     *)
(***************************************************************************)
Sep == "/"

\* Pattern::new: the run of `*` starting at position i of pattern p
RECURSIVE StarRun(_, _)
StarRun(p, i) == IF i <= Len(p) /\ p[i] = "*" THEN 1 + StarRun(p, i + 1) ELSE 0

\* Pattern::new: tokens of p from position i, or <<"ERR">> somewhere in the
\* result when p is not a valid pattern.  Tokens: "?" AnyChar, "*" AnySequence,
\* "**" AnyRecursiveSequence, anything else Char(c).
RECURSIVE Tokenize(_, _, _)
Tokenize(p, i, acc) ==
    IF i > Len(p) THEN acc
    ELSE IF \A k \in i..Len(p) : p[k] \notin {"?", "*", "["}
    THEN acc \o SubSeq(p, i, Len(p))   \* only Char tokens remain
    ELSE IF p[i] = "?" THEN Tokenize(p, i + 1, Append(acc, "?"))
    ELSE IF p[i] = "*" THEN
        LET count == StarRun(p, i)
            j == i + count
        IN  IF count > 2 THEN <<"ERR">>
            ELSE IF count = 2 THEN
                IF j = 3 \/ p[i - 1] = Sep
                THEN IF j <= Len(p) /\ p[j] = Sep
                     THEN Tokenize(p, j + 1,
                            IF Len(acc) > 1 /\ acc[Len(acc)] = "**" THEN acc ELSE Append(acc, "**"))
                     ELSE IF j = Len(p) + 1
                     THEN Tokenize(p, j,
                            IF Len(acc) > 1 /\ acc[Len(acc)] = "**" THEN acc ELSE Append(acc, "**"))
                     ELSE <<"ERR">>
                ELSE <<"ERR">>
            ELSE Tokenize(p, j, Append(acc, "*"))
    ELSE IF p[i] = "[" THEN <<"ERR">>   \* the alphabet has no `]`: an unclosed range
    ELSE Tokenize(p, i + 1, Append(acc, p[i]))

\* Pattern::new(p): Ok(tokens) or Err
PatternNew(p) ==
    LET t == Tokenize(p, 1, <<>>)
    IN  IF t = <<"ERR">> THEN [ok |-> FALSE, tokens |-> <<>>]
        ELSE [ok |-> TRUE, tokens |-> t]

\* Pattern::matches_from on the remaining tokens and the remaining text
RECURSIVE MatchesFrom(_, _)
MatchesFrom(toks, f) ==
    IF toks = <<>> THEN f = <<>>
    ELSE IF Head(toks) = "*"
        THEN \E k \in 0..Len(f) : MatchesFrom(Tail(toks), SubSeq(f, k + 1, Len(f)))
    ELSE IF Head(toks) = "**"
        THEN \E k \in 0..Len(f) :
                /\ (k = 0 \/ f[k] = Sep)
                /\ MatchesFrom(Tail(toks), SubSeq(f, k + 1, Len(f)))
    ELSE /\ f # <<>>
         /\ (Head(toks) = "?" \/ Head(toks) = Head(f))
         /\ MatchesFrom(Tail(toks), Tail(f))

\* Pattern::matches
PatternMatches(pat, s) == MatchesFrom(pat.tokens, s)

(***************************************************************************)
(* Path rules                                                              *)
(***************************************************************************)
\* HttpMethod as converted from a request's method (From<&axum::http::Method>)
ReqMethods == {"GET", "POST", "PUT", "PATCH", "DELETE", "HEAD", "OPTIONS",
               "TRACE", "CONNECT", "OTHER"}

\* PathRule::compile: Some((Pattern, methods)) or None for an invalid pattern
PathRuleCompile(rule) ==
    LET p == PatternNew(rule.pattern)
    IN  IF p.ok THEN <<[pattern |-> p, methods |-> rule.public_methods]>> ELSE <<>>

\* AuthConfig::get_compiled_path_rules: filter_map(compile), order kept
RECURSIVE get_compiled_path_rules(_)
get_compiled_path_rules(rules) ==
    IF rules = <<>> THEN <<>>
    ELSE PathRuleCompile(Head(rules)) \o get_compiled_path_rules(Tail(rules))

\* the loop of should_not_protect over the compiled rules, from rule i on
RECURSIVE RulesLoop(_, _, _, _)
RulesLoop(compiled, i, path, method) ==
    IF i > Len(compiled) THEN FALSE
    ELSE IF /\ PatternMatches(compiled[i].pattern, path)
            /\ ("ALL" \in compiled[i].methods \/ method \in compiled[i].methods)
         THEN TRUE
         ELSE RulesLoop(compiled, i + 1, path, method)

\* a variant that approves on the path alone, whatever the method
should_not_protect_PathOnly(rules, path, method) ==
    \E i \in 1..Len(get_compiled_path_rules(rules)) :
        PatternMatches(get_compiled_path_rules(rules)[i].pattern, path)

\* PathRulesCache::should_not_protect
should_not_protect(rules, path, method) ==
    RulesLoop(get_compiled_path_rules(rules), 1, path, method)


(***************************************************************************)
(* jsonwebtoken (the crate both Jwt revisions sign and verify with).       *)
(* A key is [fam, id]: an encoding key and the decoding key that verifies  *)
(* its signatures share the id.  A signature is the key, the algorithm and *)
(* the signed message (header and payload), so it verifies for nothing     *)
(* else.                                                                   *)
(***************************************************************************)
Some(x) == [some |-> TRUE, v |-> x]
NoKid == [some |-> FALSE, v |-> ""]
NoSize == [some |-> FALSE, v |-> 0]

AlgFamily(alg) ==
    IF alg \in {"HS256", "HS384", "HS512"} THEN "hmac"
    ELSE IF alg \in {"RS256", "RS384", "RS512", "PS256", "PS384", "PS512"} THEN "rsa"
    ELSE IF alg \in {"ES256", "ES384"} THEN "ec"
    ELSE "ed"

Message(hdr, body) == <<hdr.alg, hdr.kid, body>>
Sign(key, alg, msg) == [k |-> key.id, f |-> key.fam, a |-> alg, m |-> msg]
Verify(sig, msg, key, alg) == sig = [k |-> key.id, f |-> key.fam, a |-> alg, m |-> msg]

LibOk(v) == [ok |-> TRUE, err |-> "", v |-> v]
LibErr(e) == [ok |-> FALSE, err |-> e, v |-> <<>>]

\* jsonwebtoken::encode(header, claims, key)
LibEncode(hdr, body, key) ==
    IF key.fam # AlgFamily(hdr.alg) THEN LibErr("InvalidAlgorithm")
    ELSE LibOk([wf |-> "ok", alg |-> hdr.alg, kid |-> hdr.kid, body |-> body,
                sig |-> Sign(key, hdr.alg, Message(hdr, body))])

\* jsonwebtoken::decode_header(token)
decode_header(tok) ==
    IF tok.wf = "parts" THEN LibErr("InvalidToken")
    ELSE IF tok.wf = "b64" THEN LibErr("Base64")
    ELSE LibOk([alg |-> tok.alg, kid |-> tok.kid])

\* jsonwebtoken verify_signature(token, key, validation)
LibVerifySignature(tok, key, val) ==
    IF val.algorithms = <<>> THEN "MissingAlgorithm"
    ELSE IF \E i \in 1..Len(val.algorithms) : key.fam # AlgFamily(val.algorithms[i])
        THEN "InvalidAlgorithm"
    ELSE IF tok.wf = "parts" THEN "InvalidToken"
    ELSE IF tok.wf = "b64" THEN "Base64"
    ELSE IF \A i \in 1..Len(val.algorithms) : val.algorithms[i] # tok.alg
        THEN "InvalidAlgorithm"
    ELSE IF ~Verify(tok.sig, Message(tok, tok.body), key, tok.alg) THEN "InvalidSignature"
    ELSE "ok"

\* ClaimsForValidation: exp and nbf are read as u64 (a negative number reads as 0)
AsU64(x) == IF x < 0 THEN 0 ELSE x

\* a - b on u64 as a release build computes it: an underflow wraps around to a
\* value beyond every timestamp
U64Wrapped == 1000 * 1000
U64Sub(a, b) == IF a >= b THEN a - b ELSE U64Wrapped - (b - a)

\* jsonwebtoken validate: the exp test, a variant that leaves the leeway out
LibExpiredNoLeeway(exp, val, now) ==
    U64Sub(exp, val.reject_tokens_expiring_in_less_than) < now

\* a variant that leaves reject_tokens_expiring_in_less_than out
LibExpiredNoTolerance(exp, val, now) == exp < U64Sub(now, val.leeway)

\* jsonwebtoken validate: exp - reject_tokens_expiring_in_less_than < now - leeway
LibExpired(exp, val, now) ==
    U64Sub(exp, val.reject_tokens_expiring_in_less_than) < U64Sub(now, val.leeway)

\* a variant of the nbf test that also refuses at nbf itself
LibImmatureInclusive(nbf, val, now) == nbf >= now + val.leeway

\* jsonwebtoken validate: nbf > now + leeway
LibImmature(nbf, val, now) == nbf > now + val.leeway

\* a variant of the aud test that wants every audience of the token accepted
LibAudienceAll(aud, accepted) == \A i \in 1..Len(aud) : aud[i] \in accepted

\* jsonwebtoken validate: the token's audiences and the accepted ones intersect
LibAudienceOk(aud, accepted) == {aud[i] : i \in 1..Len(aud)} \cap accepted # {}

\* jsonwebtoken validate(claims, options): the standard claims of a payload
\* whose signature verified
LibValidate(body, val, now) ==
    LET has(c) == c \in DOMAIN body
        exp == AsU64(body.exp)
        nbf == AsU64(body.nbf)
        missing == {c \in val.required_spec_claims : ~has(c)}
    IN  IF missing # {} THEN "MissingRequiredClaim"
        ELSE IF has("exp") /\ val.validate_exp /\ LibExpired(exp, val, now)
            THEN "ExpiredSignature"
        ELSE IF has("nbf") /\ val.validate_nbf /\ LibImmature(nbf, val, now)
            THEN "ImmatureSignature"
        ELSE IF has("iss") /\ val.iss.some /\ body.iss \notin val.iss.v
            THEN "InvalidIssuer"
        ELSE IF has("aud") /\ ~val.aud.some /\ val.validate_aud
            THEN "InvalidAudience"
        ELSE IF /\ has("aud") /\ val.aud.some /\ val.validate_aud
                /\ ~LibAudienceOk(body.aud, val.aud.v)
            THEN "InvalidAudience"
        ELSE "ok"

\* jsonwebtoken::decode::<T>(token, key, validation): the payload as T when
\* the signature and the claims pass; deser is T's deserialization of the
\* payload
LibDecode(tok, key, val, now, deser) ==
    LET s == LibVerifySignature(tok, key, val)
    IN  IF s # "ok" THEN LibErr(s)
        ELSE IF ~deser.ok THEN LibErr("Json")
        ELSE IF LibValidate(tok.body, val, now) # "ok" THEN LibErr(LibValidate(tok.body, val, now))
        ELSE LibOk(deser.v)

(***************************************************************************)
(* src/http/auth.rs: the Jwt<Permission> revision AuthMiddleware uses      *)
(***************************************************************************)
\* Permission::new_root
MwNewRoot ==
    [operations |-> {"ALL"}, resource_pattern |-> <<"*">>,
     conditions |-> [max_size |-> NoSize, allowed_content_types |-> << <<"*">> >>]]

\* Permission::can_perform
MwCanPerform(perm, method) == "ALL" \in perm.operations \/ method \in perm.operations

\* Permission::can_access
MwCanAccess(perm, path) ==
    LET p == PatternNew(perm.resource_pattern)
    IN  IF p.ok THEN PatternMatches(p, path) ELSE FALSE

\* a variant of check_size that admits every size
MwCheckSize_NoLimit(perm, size) == size >= 0

\* Conditions::check_size
MwCheckSize(perm, size) ==
    ~perm.conditions.max_size.some \/ size <= perm.conditions.max_size.v

\* Conditions::check_content_type: the loop over allowed_content_types
RECURSIVE ContentTypeLoop(_, _, _)
ContentTypeLoop(allowed, i, content_type) ==
    IF i > Len(allowed) THEN FALSE
    ELSE IF (LET p == PatternNew(allowed[i])
             IN  IF p.ok THEN PatternMatches(p, content_type) ELSE FALSE)
         THEN TRUE
         ELSE ContentTypeLoop(allowed, i + 1, content_type)

MwCheckContentType(perm, content_type) ==
    ContentTypeLoop(perm.conditions.allowed_content_types, 1, content_type)

\* Serialize for Jwt<Permission>: the payload is flattened, fields camelCase
MwSerialize(jwt) ==
    [iss |-> jwt.iss, aud |-> jwt.aud, exp |-> jwt.exp, nbf |-> jwt.nbf,
     iat |-> jwt.iat, jti |-> jwt.jti,
     operations |-> jwt.payload.operations,
     resourcePattern |-> jwt.payload.resource_pattern,
     conditions |-> [maxSize |-> jwt.payload.conditions.max_size,
                     allowedContentTypes |-> jwt.payload.conditions.allowed_content_types]]

\* Deserialize for Jwt<Permission>
MwDeserialize(body) ==
    IF DOMAIN body # {"iss", "aud", "exp", "nbf", "iat", "jti", "operations",
                      "resourcePattern", "conditions"}
    THEN LibErr("Json")
    ELSE LibOk([iss |-> body.iss, aud |-> body.aud, exp |-> body.exp, nbf |-> body.nbf,
                iat |-> body.iat, jti |-> body.jti,
                payload |-> [operations |-> body.operations,
                             resource_pattern |-> body.resourcePattern,
                             conditions |-> [max_size |-> body.conditions.maxSize,
                                             allowed_content_types |->
                                                 body.conditions.allowedContentTypes]]])

\* From<jsonwebtoken::errors::Error> for AuthError (src/error/auth.rs)
MwFromLibError(e) ==
    CASE e = "ExpiredSignature" -> "TokenExpired"
      [] e = "InvalidSignature" -> "InvalidSignature"
      [] e = "InvalidIssuer" -> "InvalidIssuer"
      [] e = "InvalidAudience" -> "InvalidAudience"
      [] e = "InvalidSubject" -> "InvalidSubject"
      [] e = "MissingRequiredClaim" -> "MissingClaim"
      [] e = "ImmatureSignature" -> "TokenNotYetValid"
      [] e = "InvalidToken" -> "TokenInvalid"
      [] OTHER -> "InternalError"

\* Jwt::decode(token, config)
MwJwtDecode(tok, config, now) ==
    LET header == decode_header(tok)
    IN  IF ~header.ok THEN LibErr(MwFromLibError(header.err))
        ELSE IF header.v.alg \notin DOMAIN config.decoding_key THEN LibErr("InvalidAlgorithm")
        ELSE LET r == LibDecode(tok, config.decoding_key[header.v.alg], config.validation,
                                now, MwDeserialize(tok.body))
             IN  IF r.ok THEN r ELSE LibErr(MwFromLibError(r.err))

(***************************************************************************)
(* src/http/middleware/auth.rs                                             *)
(* A header is [kind, v]: "absent", "opaque" (bytes to_str refuses) or     *)
(* "text".  Authorization text is [bearer, token]; Content-Length text is  *)
(* the number it parses to, or -1 when it parses to none; Content-Type     *)
(* text is a string.                                                       *)
(***************************************************************************)
MwOk(perm, steps) == [ok |-> TRUE, perm |-> perm, err |-> "", steps |-> steps]
MwErr(e, steps) == [ok |-> FALSE, perm |-> MwNewRoot, err |-> e, steps |-> steps]

\* extract_and_validate_token, step 6: Content-Type
ExtractStep6(req, perm, steps) ==
    LET st == Append(steps, "content_type")
    IN  IF req.content_type.kind = "absent" THEN MwErr("MissingContentType", st)
        ELSE IF req.content_type.kind = "opaque" THEN MwErr("InvalidContentType", st)
        ELSE IF ~MwCheckContentType(perm, req.content_type.v) THEN MwErr("InvalidContentType", st)
        ELSE MwOk(perm, st)

\* step 5: method and resource path
ExtractStep5(req, perm, steps) ==
    LET st == Append(steps, "method_path")
    IN  IF ~MwCanPerform(perm, req.method) \/ ~MwCanAccess(perm, req.path)
        THEN MwErr("InsufficientPermissions", st)
        ELSE ExtractStep6(req, perm, st)

\* a variant of step 4 that checks method and path before the size
ExtractStep4SizeLast(req, perm, steps) ==
    LET st == Append(steps, "content_length")
    IN  IF req.content_length.kind = "absent" THEN MwErr("MissingContentLength", st)
        ELSE IF req.content_length.kind = "opaque" THEN MwErr("EncodingError", st)
        ELSE IF req.content_length.v < 0 THEN MwErr("ValueParsingError", st)
        ELSE IF ~MwCanPerform(perm, req.method) \/ ~MwCanAccess(perm, req.path)
            THEN MwErr("InsufficientPermissions", Append(st, "method_path"))
        ELSE IF ~MwCheckSize(perm, req.content_length.v)
            THEN MwErr("BodyTooLarge", Append(Append(st, "method_path"), "size"))
        ELSE ExtractStep6(req, perm, Append(Append(st, "method_path"), "size"))

\* step 4: Content-Length and the size limit
ExtractStep4(req, perm, steps) ==
    LET st == Append(steps, "content_length")
    IN  IF req.content_length.kind = "absent" THEN MwErr("MissingContentLength", st)
        ELSE IF req.content_length.kind = "opaque" THEN MwErr("EncodingError", st)
        ELSE IF req.content_length.v < 0 THEN MwErr("ValueParsingError", st)
        ELSE IF ~MwCheckSize(perm, req.content_length.v)
            THEN MwErr("BodyTooLarge", Append(st, "size"))
        ELSE ExtractStep5(req, perm, Append(st, "size"))

\* a variant that reads the payload of a well-formed token without Jwt::decode
extract_and_validate_token_NoDecode(req, config, now) ==
    IF req.authorization.kind = "absent" THEN MwErr("MissingAuthHeader", <<"auth_header">>)
    ELSE IF req.authorization.kind = "opaque" THEN MwErr("InvalidAuthFormat", <<"auth_header">>)
    ELSE IF ~req.authorization.v.bearer THEN MwErr("InvalidAuthFormat", <<"auth_header", "bearer">>)
    ELSE IF req.authorization.v.token.wf # "ok"
        THEN MwErr("TokenInvalid", <<"auth_header", "bearer", "decode">>)
    ELSE ExtractStep4(req, MwDeserialize(req.authorization.v.token.body).v.payload,
                      <<"auth_header", "bearer", "decode">>)

\* extract_and_validate_token(headers, method, path, jwt_config)
extract_and_validate_token(req, config, now) ==
    IF req.authorization.kind = "absent" THEN MwErr("MissingAuthHeader", <<"auth_header">>)
    ELSE IF req.authorization.kind = "opaque" THEN MwErr("InvalidAuthFormat", <<"auth_header">>)
    ELSE IF ~req.authorization.v.bearer THEN MwErr("InvalidAuthFormat", <<"auth_header", "bearer">>)
    ELSE LET jwt == MwJwtDecode(req.authorization.v.token, config, now)
         IN  IF ~jwt.ok THEN MwErr(jwt.err, <<"auth_header", "bearer", "decode">>)
             ELSE ExtractStep4(req, jwt.v.payload, <<"auth_header", "bearer", "decode">>)

(***************************************************************************)
(* SpecRules: a configuration of path rules, queried for (path, method)    *)
(***************************************************************************)
SeqsUpTo(S, n) == UNION {[1..k -> S] : k \in 0..n}

\* request paths: "/" followed by fewer than n characters
PathsUpTo(n) == {<<Sep>> \o t : t \in SeqsUpTo({Sep, "a", "b"}, n - 1)}

RulePatterns == {<<"/", "a">>, <<"/", "*">>, <<"/", "a", "/", "*">>, <<"/", "[">>}
RuleMethodSets == {{}, {"GET"}, {"PUT", "SAFE"}, {"ALL"}}
Rules == [pattern : RulePatterns, public_methods : RuleMethodSets]
RuleConfigs == SeqsUpTo(Rules, MaxRules)
RuleQueryMethods == {"GET", "PUT", "DELETE"}

NoQuery == [asked |-> FALSE, path |-> <<>>, method |-> None, approved |-> FALSE]
MwOff == [pc |-> "off"]
JwIdle == [pc |-> "off"]

InitRules ==
    /\ path_rules \in RuleConfigs
    /\ rl = NoQuery
    /\ mw = MwOff
    /\ inner_calls = 0
    /\ jw = JwIdle

\* one call of should_not_protect(path, method) on the configured rules
Approve(path, method) ==
    /\ ~rl.asked
    /\ rl' = [asked |-> TRUE, path |-> path, method |-> method,
              approved |-> should_not_protect(path_rules, path, method)]
    /\ UNCHANGED <<path_rules, mw, inner_calls, jw>>

NextRules ==
    ~rl.asked /\ \E path \in PathsUpTo(MaxPathLen), method \in RuleQueryMethods : Approve(path, method)

SpecRules == InitRules /\ [][NextRules]_vars

\* rule i of the configuration compiles and accepts (path, method)
RuleAccepts(rule, path, method) ==
    /\ PatternNew(rule.pattern).ok
    /\ PatternMatches(PatternNew(rule.pattern), path)
    /\ (method \in rule.public_methods \/ "ALL" \in rule.public_methods)

RuleCovers(rule, path) ==
    /\ PatternNew(rule.pattern).ok
    /\ PatternMatches(PatternNew(rule.pattern), path)

Covering(path) == {i \in 1..Len(path_rules) : RuleCovers(path_rules[i], path)}
Last(S) == CHOOSE i \in S : \A j \in S : j <= i

\* C7: when several rules with the same pattern cover a path, the public
\* methods in force are those of the last-specified one, not the union.
C7_LastRuleWins ==
    (/\ rl.asked
     /\ Cardinality(Covering(rl.path)) >= 2
     /\ \A i, j \in Covering(rl.path) : path_rules[i].pattern = path_rules[j].pattern)
    => (rl.approved <=> RuleAccepts(path_rules[Last(Covering(rl.path))], rl.path, rl.method))


(***************************************************************************)
(* SpecMw: one request through AuthMiddleware and on to the inner service  *)
(***************************************************************************)
MwNow == 10
MwKey == [fam |-> "hmac", id |-> "secret"]
MwOtherKey == [fam |-> "hmac", id |-> "guess"]

\* JwtConfigBuilder::build on a configuration file with one HS256 key and the
\* validation of ValidationConfig::new
MwJwtConfig ==
    [decoding_key |-> [a \in {"HS256"} |-> MwKey],
     validation |-> [required_spec_claims |-> {"exp"}, leeway |-> 0,
                     reject_tokens_expiring_in_less_than |-> 0,
                     validate_exp |-> TRUE, validate_nbf |-> FALSE, validate_aud |-> FALSE,
                     aud |-> [some |-> FALSE, v |-> {}], iss |-> [some |-> FALSE, v |-> {}],
                     algorithms |-> <<"HS256">>]]

MwPerms ==
    [operations : {{}, {"GET"}, {"PUT"}, {"ALL"}},
     resource_pattern : {<<"/", "a", "/", "*">>, <<"*">>, <<"[">>},
     conditions : [max_size : {NoSize} \cup {Some(n) : n \in 0..MaxSize},
                   allowed_content_types : {<<>>, << <<"*">> >>, << <<"[">>, <<"a">> >>}]]

MwClaims(exp, perm) ==
    [iss |-> "crab-vault", aud |-> <<"web">>, exp |-> exp, nbf |-> MwNow, iat |-> MwNow,
     jti |-> 1, payload |-> perm]

\* Jwt::encode with a header of algorithm alg, signed with key
MwToken(alg, key, claims) == LibEncode([alg |-> alg, kid |-> NoKid], MwSerialize(claims), key).v

MwMalformed == [MwToken("HS256", MwKey, MwClaims(MwNow + 1, MwNewRoot)) EXCEPT !.wf = "parts"]

\* the tokens presented: every Permission in a good token, and root in the bad ones
MwTokens ==
    {MwToken("HS256", MwKey, MwClaims(MwNow + 1, perm)) : perm \in MwPerms}
    \cup {MwToken("HS256", MwOtherKey, MwClaims(MwNow + 1, MwNewRoot)),
          MwToken("HS256", MwKey, MwClaims(MwNow - 1, MwNewRoot)),
          MwToken("HS384", MwKey, MwClaims(MwNow + 1, MwNewRoot)),
          MwMalformed}

MwAuthHeaders ==
    {[kind |-> "absent", v |-> [bearer |-> FALSE, token |-> MwMalformed]],
     [kind |-> "opaque", v |-> [bearer |-> FALSE, token |-> MwMalformed]]}
    \cup {[kind |-> "text", v |-> [bearer |-> FALSE, token |-> t]] : t \in {MwMalformed}}
    \cup {[kind |-> "text", v |-> [bearer |-> TRUE, token |-> t]] : t \in MwTokens}

MwLengthHeaders ==
    {[kind |-> "absent", v |-> -1], [kind |-> "opaque", v |-> -1]}
    \cup {[kind |-> "text", v |-> n] : n \in -1..MaxLen}

MwTypeHeaders ==
    {[kind |-> "absent", v |-> <<>>], [kind |-> "opaque", v |-> <<>>]}
    \cup {[kind |-> "text", v |-> t] : t \in {<<"a">>, <<"b">>}}

MwMethods == {"GET", "PUT", "OTHER"}
MwPaths == {<<"/", "a">>, <<"/", "a", "/", "b">>}

Requests ==
    [method : MwMethods, path : MwPaths, authorization : MwAuthHeaders,
     content_length : MwLengthHeaders, content_type : MwTypeHeaders]

MwRuleConfigs ==
    {<<>>,
     <<[pattern |-> <<"/", "a">>, public_methods |-> {"GET"}]>>,
     <<[pattern |-> <<"/", "a", "/", "*">>, public_methods |-> {"ALL"}]>>}

NoExt == [some |-> FALSE, v |-> MwNewRoot]
MwIdle == [pc |-> "idle"]

InitMw ==
    /\ path_rules \in MwRuleConfigs
    /\ rl = NoQuery
    /\ mw = MwIdle
    /\ inner_calls = 0
    /\ jw = JwIdle

\* a variant of the bypass branch without the insert of the root Permission
CallBypassNoInsert(req) ==
    /\ mw' = [pc |-> "inner", req |-> req, ext |-> NoExt, resp |-> "",
              bypass |-> TRUE, steps |-> <<>>]
    /\ inner_calls' = inner_calls + 1

\* AuthMiddleware::call, bypass branch
CallBypass(req) ==
    /\ mw' = [pc |-> "inner", req |-> req, ext |-> Some(MwNewRoot), resp |-> "",
              bypass |-> TRUE, steps |-> <<>>]
    /\ inner_calls' = inner_calls + 1

\* AuthMiddleware::call, token branch
CallToken(req) ==
    LET r == extract_and_validate_token(req, MwJwtConfig, MwNow)
    IN  IF r.ok
        THEN /\ mw' = [pc |-> "inner", req |-> req, ext |-> Some(r.perm), resp |-> "",
                       bypass |-> FALSE, steps |-> r.steps]
             /\ inner_calls' = inner_calls + 1
        ELSE /\ mw' = [pc |-> "done", req |-> req, ext |-> NoExt, resp |-> r.err,
                       bypass |-> FALSE, steps |-> r.steps]
             /\ inner_calls' = inner_calls

\* AuthMiddleware::call(req)
Call(req) ==
    /\ mw.pc = "idle"
    /\ IF should_not_protect(path_rules, req.path, req.method)
       THEN CallBypass(req)
       ELSE CallToken(req)
    /\ UNCHANGED <<path_rules, rl, jw>>

\* RestrictedBytes::from_request on a request whose extensions hold ext and
\* whose body, as received, is n bytes long (-1 when reading the body fails)
RestrictedBytesFromRequest(ext, n) ==
    IF ~ext.some THEN "unreachable"
    ELSE IF n < 0 THEN "BodyRejection"
    ELSE IF ~MwCheckSize(ext.v, n) THEN "BodyTooLarge"
    ELSE "ok"

\* the inner service is a handler that takes the body through
\* RestrictedBytes::from_request; n is the length of the body received, -1
\* when reading the body fails
InnerRestrictedBytes(n) ==
    /\ mw.pc = "inner"
    /\ mw' = LET r == RestrictedBytesFromRequest(mw.ext, n)
             IN  IF r = "unreachable" THEN [mw EXCEPT !.pc = "unreachable"]
                 ELSE IF r = "ok" THEN [mw EXCEPT !.pc = "done", !.resp = "handled"]
                 ELSE [mw EXCEPT !.pc = "done", !.resp = r]
    /\ UNCHANGED <<path_rules, rl, inner_calls, jw>>

NextMw ==
    \/ mw.pc = "idle" /\ \E req \in Requests : Call(req)
    \/ mw.pc = "inner" /\ \E n \in -1..MaxLen : InnerRestrictedBytes(n)

SpecMw == InitMw /\ [][NextMw]_vars

(***************************************************************************)
(* Claims on SpecMw                                                        *)
(***************************************************************************)
MwStarted == mw.pc # "idle"
MwBearer(req) == req.authorization.kind = "text" /\ req.authorization.v.bearer
MwDecoded(req) == MwJwtDecode(req.authorization.v.token, MwJwtConfig, MwNow)
MwTokenPerm(req) == MwDeserialize(req.authorization.v.token.body).v.payload

\* the request carries a Bearer token that decode accepts
MwValidToken(req) == MwBearer(req) /\ MwDecoded(req).ok

\* the four checks of the token's Permission against the request
MwSizeOk(req) ==
    /\ req.content_length.kind = "text" /\ req.content_length.v >= 0
    /\ MwCheckSize(MwTokenPerm(req), req.content_length.v)
MwMethodPathOk(req) ==
    MwCanPerform(MwTokenPerm(req), req.method) /\ MwCanAccess(MwTokenPerm(req), req.path)
MwTypeOk(req) ==
    /\ req.content_type.kind = "text"
    /\ MwCheckContentType(MwTokenPerm(req), req.content_type.v)

MwAuthorized(req) ==
    \/ should_not_protect(path_rules, req.path, req.method)
    \/ MwValidToken(req) /\ MwSizeOk(req) /\ MwMethodPathOk(req) /\ MwTypeOk(req)

\* C1: the inner service is called for a request only if the path rules
\* approve (path, method) or the request carries a Bearer token that decode
\* accepts and whose Permission passes the method, path, size and content
\* type checks; otherwise the response is an error and the inner service is
\* never called.
C1_InnerOnlyIfAuthorized ==
    MwStarted =>
        /\ inner_calls > 0 => MwAuthorized(mw.req)
        /\ ~MwAuthorized(mw.req) => inner_calls = 0 /\ mw.pc = "done" /\ mw.resp # ""
                                    /\ mw.resp # "handled"

\* C1 witness: a valid token whose Permission does not cover the request is
\* answered with an error, and the inner service was not called.
C1_Witness ==
    /\ mw.pc = "done" /\ inner_calls = 0
    /\ MwValidToken(mw.req) /\ ~MwMethodPathOk(mw.req)
    /\ mw.resp = "InsufficientPermissions"

BucketLevel(path) == Len(path) >= 2 /\ \A i \in 2..Len(path) : path[i] # Sep
ReadOnly(method) == method \in {"GET", "HEAD", "OPTIONS", "TRACE"}

\* C3: for a request that is not bypassed and carries a valid token, when the
\* path is bucket-level or the method is read-only, Content-Length and
\* Content-Type are neither required nor inspected and the outcome depends on
\* method and path authorization only.
C3_SkipsSizeAndType ==
    (/\ MwStarted /\ ~mw.bypass /\ MwValidToken(mw.req)
     /\ (BucketLevel(mw.req.path) \/ ReadOnly(mw.req.method)))
    => /\ (inner_calls > 0 <=> MwMethodPathOk(mw.req))
       /\ \A i \in 1..Len(mw.steps) : mw.steps[i] \notin {"content_length", "size", "content_type"}

\* the checks of extract_and_validate_token in their order, each with whether
\* the request passes it and the error it is answered with otherwise
MwStages(req) ==
    << [name |-> "auth_header", pass |-> req.authorization.kind # "absent",
        err |-> {"MissingAuthHeader"}],
       [name |-> "bearer", pass |-> MwBearer(req), err |-> {"InvalidAuthFormat"}],
       [name |-> "decode", pass |-> MwBearer(req) /\ MwDecoded(req).ok,
        err |-> {"TokenInvalid", "TokenExpired", "InvalidSignature", "InvalidAlgorithm",
                 "InternalError"}],
       [name |-> "content_length",
        pass |-> req.content_length.kind = "text" /\ req.content_length.v >= 0,
        err |-> IF req.content_length.kind = "absent" THEN {"MissingContentLength"}
                ELSE IF req.content_length.kind = "text" THEN {"ValueParsingError"}
                ELSE {"EncodingError"}],
       [name |-> "size", pass |-> MwSizeOk(req), err |-> {"BodyTooLarge"}],
       [name |-> "method_path", pass |-> MwMethodPathOk(req), err |-> {"InsufficientPermissions"}],
       [name |-> "content_type", pass |-> MwTypeOk(req),
        err |-> IF req.content_type.kind = "absent" THEN {"MissingContentType"}
                ELSE {"InvalidContentType"}] >>

\* the first check the request fails (8 when it passes all seven)
MwFirstFailing(req) ==
    LET st == MwStages(req)
        failing == {i \in 1..Len(st) : ~st[i].pass}
    IN  IF failing = {} THEN Len(st) + 1 ELSE CHOOSE i \in failing : \A j \in failing : i <= j

\* the checks evaluated for the request
MwEvaluatedNames(steps) == {steps[i] : i \in 1..Len(steps)}

\* C4: a request that is not bypassed is answered with the error of the first
\* failing check in the order Authorization present, Bearer format, decode,
\* Content-Length, size, method and path, Content-Type; no later check is
\* evaluated.
C4_FirstFailingCheckAnswers ==
    (MwStarted /\ ~mw.bypass) =>
        LET st == MwStages(mw.req)
            k == MwFirstFailing(mw.req)
        IN  IF k > Len(st)
            THEN inner_calls = 1 /\ mw.steps = [i \in 1..Len(st) |-> st[i].name]
            ELSE /\ inner_calls = 0
                 /\ mw.resp \in st[k].err
                 /\ \A i \in 1..Len(st) :
                        /\ i < k => st[i].name \in MwEvaluatedNames(mw.steps)
                        /\ i > k => st[i].name \notin MwEvaluatedNames(mw.steps)

\* C4 witness: the declared size exceeds max_size and the method is not
\* permitted; the answer is the body-too-large error.
C4_Witness ==
    /\ mw.pc = "done" /\ ~mw.bypass /\ MwValidToken(mw.req)
    /\ mw.req.content_length.kind = "text" /\ mw.req.content_length.v >= 0
    /\ ~MwSizeOk(mw.req)
    /\ ~MwCanPerform(MwTokenPerm(mw.req), mw.req.method)
    /\ mw.resp = "BodyTooLarge"

\* C5: whenever the inner service is called the request's extensions hold a
\* Permission: root after a bypass, otherwise the Permission of the verified
\* token; RestrictedBytes never finds it absent.
C5_PermissionAttached ==
    /\ mw.pc # "unreachable"
    /\ (MwStarted /\ inner_calls > 0) =>
          /\ mw.ext.some
          /\ mw.bypass => mw.ext.v = MwNewRoot
          /\ ~mw.bypass => mw.ext.v = MwTokenPerm(mw.req)

\* C5 witness: RestrictedBytes ran behind a bypass and found the Permission.
C5_Witness ==
    /\ mw.pc = "done" /\ mw.bypass /\ mw.resp = "handled" /\ inner_calls = 1

(***************************************************************************)
(* crates/crab-vault-auth: JwtEncoder and JwtDecoder, built from the       *)
(* configuration of src/app_config/auth.rs                                 *)
(***************************************************************************)
\* what a descriptor's key field holds when it cannot be used: text that is
\* not base64, the path of a file that cannot be read, bytes that are not PEM
NotBase64 == "!base64"
NoSuchFile == "/missing"
BytesNotPem == "!pem"

\* Err(MultiCliError): the errors collected while building
MultiCliError(errors) == [ok |-> FALSE, err |-> "MultiCliError", v |-> <<>>, errors |-> errors]

\* KeyInfo::get_key: the key bytes, or the error of decoding or reading them
get_key(info) ==
    CASE info.form = "der" ->
            IF info.key = NotBase64 THEN LibErr("Base64") ELSE LibOk(info.key)
      [] info.form \in {"der_file", "pem_file"} ->
            IF info.key = NoSuchFile THEN LibErr("Io") ELSE LibOk(info.key)
      [] info.form = "pem" -> LibOk(info.key)

\* KeyInfo::build_as_encode_key and KeyInfo::build_as_decode_key: the key is
\* built by the constructor of the algorithm's family; a PEM form of an HMAC
\* secret is an error
KeyInfoBuild(info) ==
    IF info.form \in {"pem", "pem_file"} /\ AlgFamily(info.algorithm) = "hmac" THEN LibErr("Io")
    ELSE IF ~get_key(info).ok THEN get_key(info)
    ELSE IF info.form \in {"pem", "pem_file"} /\ get_key(info).v = BytesNotPem THEN LibErr("Io")
    ELSE LibOk([kid |-> info.kid, alg |-> info.algorithm,
                key |-> [fam |-> AlgFamily(info.algorithm), id |-> get_key(info).v]])

\* the CliError pushed for the descriptor info
CliErrorOf(info) == [key |-> info.key, kind |-> KeyInfoBuild(info).err]

\* the CliError pushed when no key resulted
CliErrorNoKey == [key |-> None, kind |-> "Io"]

\* HashMap::insert
MapInsert(m, k, v) == [x \in DOMAIN m \cup {k} |-> IF x = k THEN v ELSE m[x]]

\* TryFrom<JwtEncoderConfig> for JwtEncoder: the loop over encoding_keys
RECURSIVE EncoderLoop(_, _, _)
EncoderLoop(encoding_keys, i, acc) ==
    IF i > Len(encoding_keys) THEN acc
    ELSE LET b == KeyInfoBuild(encoding_keys[i])
         IN  IF b.ok
             THEN EncoderLoop(encoding_keys, i + 1,
                      [acc EXCEPT !.mapping = MapInsert(@, b.v.kid, [key |-> b.v.key, alg |-> b.v.alg])])
             ELSE EncoderLoop(encoding_keys, i + 1,
                      [acc EXCEPT !.errors = Append(@, CliErrorOf(encoding_keys[i]))])

\* a variant of the encoder's try_from that starts with the keys that built
EncoderTryFrom_DropFailing(config) ==
    LET r == EncoderLoop(config.encoding_keys, 1, [mapping |-> <<>>, errors |-> <<>>])
    IN  IF DOMAIN r.mapping # {} THEN LibOk([encoding_key |-> r.mapping])
        ELSE MultiCliError(Append(r.errors, CliErrorNoKey))

EncoderTryFrom(config) ==
    LET r == EncoderLoop(config.encoding_keys, 1, [mapping |-> <<>>, errors |-> <<>>])
        errors == r.errors \o IF DOMAIN r.mapping = {} THEN <<CliErrorNoKey>> ELSE <<>>
    IN  IF errors = <<>> THEN LibOk([encoding_key |-> r.mapping]) ELSE MultiCliError(errors)

\* JwtDecoder::new, then reject_tokens_expiring_in_less_than and leeway
JwtDecoderNew(mapping, algorithms, iss, aud, tolerance, leeway) ==
    [decoding_keys |-> mapping,
     validation |-> [required_spec_claims |-> {"aud", "exp", "nbf", "iss"},
                     leeway |-> leeway,
                     reject_tokens_expiring_in_less_than |-> tolerance,
                     validate_exp |-> TRUE, validate_nbf |-> TRUE, validate_aud |-> TRUE,
                     aud |-> Some({aud[i] : i \in 1..Len(aud)}),
                     iss |-> Some({iss[i] : i \in 1..Len(iss)}),
                     algorithms |-> algorithms]]

\* TryFrom<JwtDecoderConfig> for JwtDecoder: the loop over decoding_keys
RECURSIVE DecoderLoop(_, _, _)
DecoderLoop(decoding_keys, i, acc) ==
    IF i > Len(decoding_keys) THEN acc
    ELSE LET iss == decoding_keys[i][1]
             b == KeyInfoBuild(decoding_keys[i][2])
         IN  IF b.ok
             THEN DecoderLoop(decoding_keys, i + 1,
                      [acc EXCEPT !.authorized_issuers = Append(@, iss),
                                  !.algorithms = Append(@, b.v.alg),
                                  !.mapping = MapInsert(@, <<iss, b.v.kid>>, b.v.key)])
             ELSE DecoderLoop(decoding_keys, i + 1,
                      [acc EXCEPT !.errors = Append(@, CliErrorOf(decoding_keys[i][2]))])

DecoderTryFrom(config) ==
    LET r == DecoderLoop(config.decoding_keys, 1,
                 [mapping |-> <<>>, algorithms |-> <<>>, authorized_issuers |-> <<>>,
                  errors |-> <<>>])
        errors == r.errors \o IF DOMAIN r.mapping = {} THEN <<CliErrorNoKey>> ELSE <<>>
    IN  IF errors = <<>>
        THEN LibOk(JwtDecoderNew(r.mapping, r.algorithms, r.authorized_issuers,
                                 config.audience,
                                 config.reject_tokens_expiring_in_less_than, config.leeway))
        ELSE MultiCliError(errors)

\* Serialize for Jwt<Permission>: load is a nested object, field names camelCase
JwtSerialize(jwt) ==
    [iss |-> jwt.iss, aud |-> jwt.aud, exp |-> jwt.exp, nbf |-> jwt.nbf,
     iat |-> jwt.iat, jti |-> jwt.jti,
     load |-> [methods |-> jwt.load.methods,
               resourcePattern |-> jwt.load.resource_pattern,
               maxSize |-> jwt.load.max_size,
               allowedContentTypes |-> jwt.load.allowed_content_types]]

\* Deserialize for Jwt<Permission>
JwtDeserialize(body) ==
    IF DOMAIN body # {"iss", "aud", "exp", "nbf", "iat", "jti", "load"} THEN LibErr("Json")
    ELSE IF ~({"methods", "allowedContentTypes"} \subseteq DOMAIN body.load
              /\ DOMAIN body.load \subseteq {"methods", "resourcePattern", "maxSize",
                                             "allowedContentTypes"})
        THEN LibErr("Json")
    ELSE LibOk([iss |-> body.iss, aud |-> body.aud, exp |-> body.exp, nbf |-> body.nbf,
                iat |-> body.iat, jti |-> body.jti,
                load |-> [methods |-> body.load.methods,
                          resource_pattern |->
                              IF "resourcePattern" \in DOMAIN body.load
                              THEN body.load.resourcePattern ELSE [some |-> FALSE, v |-> <<>>],
                          max_size |-> IF "maxSize" \in DOMAIN body.load
                                       THEN body.load.maxSize ELSE NoSize,
                          allowed_content_types |-> body.load.allowedContentTypes]])

\* From<jsonwebtoken::errors::Error> for AuthError (crate error.rs)
FromLibError(e) ==
    CASE e = "ExpiredSignature" -> "TokenExpired"
      [] e = "InvalidSignature" -> "InvalidSignature"
      [] e = "InvalidIssuer" -> "InvalidIssuer"
      [] e = "InvalidAudience" -> "InvalidAudience"
      [] e = "InvalidSubject" -> "InvalidSubject"
      [] e = "MissingRequiredClaim" -> "MissingClaim"
      [] e = "ImmatureSignature" -> "TokenNotYetValid"
      [] e = "InvalidToken" -> "InvalidToken"
      [] e = "Base64" -> "InvalidBase64"
      [] e = "Utf8" -> "InvalidUtf8"
      [] e = "Json" -> "InvalidJson"
      [] OTHER -> "InternalError"

\* JwtEncoder::encode(claims, kid)
JwtEncoderEncode(enc, claims, kid) ==
    IF kid \notin DOMAIN enc.encoding_key THEN LibErr("InternalError")
    ELSE LET r == LibEncode([alg |-> enc.encoding_key[kid].alg, kid |-> Some(kid)],
                            JwtSerialize(claims), enc.encoding_key[kid].key)
         IN  IF r.ok THEN r ELSE LibErr(FromLibError(r.err))

\* JwtDecoder::decode_unchecked(token)
decode_unchecked(tok) ==
    IF tok.wf = "parts" THEN LibErr("InvalidToken")
    ELSE IF tok.wf = "b64" THEN LibErr("InvalidBase64")
    ELSE LibOk(tok.body)

\* a variant that reads an absent kid as the empty kid
DecodeKidOrEmpty(header) ==
    IF header.kid.some THEN LibOk(header.kid.v) ELSE LibOk("")

\* JwtDecoder::decode: the kid of the header, required
DecodeKid(header) ==
    IF header.kid.some THEN LibOk(header.kid.v) ELSE LibErr("MissingClaim(kid)")

\* a variant that finds the key by kid alone
DecodeLookupKidOnly(decoding_keys, iss, kid) ==
    LET found == {k \in DOMAIN decoding_keys : k[2] = kid}
    IN  IF found = {} THEN LibErr("InvalidIssuer")
        ELSE LibOk(decoding_keys[CHOOSE k \in found : TRUE])

\* a variant that reports a known issuer with an unknown kid as InvalidKeyId
DecodeLookupInvalidKeyId(decoding_keys, iss, kid) ==
    IF <<iss, kid>> \in DOMAIN decoding_keys THEN LibOk(decoding_keys[<<iss, kid>>])
    ELSE IF \E k \in DOMAIN decoding_keys : k[1] = iss THEN LibErr("InvalidKeyId")
    ELSE LibErr("InvalidIssuer")

\* JwtDecoder::decode: decoding_keys.get(&(iss, kid)), absent is InvalidIssuer
DecodeLookup(decoding_keys, iss, kid) ==
    IF <<iss, kid>> \in DOMAIN decoding_keys THEN LibOk(decoding_keys[<<iss, kid>>])
    ELSE LibErr("InvalidIssuer")

\* JwtDecoder::decode(token)
JwtDecoderDecode(dec, tok, now) ==
    LET header == decode_header(tok)
    IN  IF ~header.ok THEN LibErr(FromLibError(header.err))
        ELSE LET kid == DecodeKid(header.v)
             IN  IF ~kid.ok THEN kid
                 ELSE LET value == decode_unchecked(tok)
                      IN  IF ~value.ok THEN value
                          ELSE LET body_unchecked == JwtDeserialize(value.v)
                               IN  IF ~body_unchecked.ok THEN LibErr("InvalidJson")
                                   ELSE LET key == DecodeLookup(dec.decoding_keys,
                                                                body_unchecked.v.iss, kid.v)
                                        IN  IF ~key.ok THEN key
                                            ELSE LET r == LibDecode(tok, key.v, dec.validation,
                                                                    now, JwtDeserialize(tok.body))
                                                 IN  IF r.ok THEN r
                                                     ELSE LibErr(FromLibError(r.err))

(***************************************************************************)
(* SpecJwt: a decoder and an encoder built from configuration; a token is  *)
(* issued by encode or presented by another party, then decoded            *)
(***************************************************************************)
MaxDecKeys == 2
MaxTolerance == 1

JwNow == MwNow

HmacInfo(kid, key) == [algorithm |-> "HS256", form |-> "der", kid |-> kid, key |-> key]

\* the (issuer, KeyInfo) entries a decoder configuration lists: two issuers
\* sharing kid k1 under different secrets, an RSA key, and a PEM form of an
\* HMAC secret
DecodingEntries ==
    {<<"A", HmacInfo("k1", "s1")>>,
     <<"B", HmacInfo("k1", "s2")>>,
     <<"B", HmacInfo("k2", "s2")>>,
     <<"B", [algorithm |-> "RS256", form |-> "pem", kid |-> "k2", key |-> "r1"]>>,
     <<"A", [algorithm |-> "HS256", form |-> "pem", kid |-> "k1", key |-> "s1"]>>}

DecoderConfigs ==
    [decoding_keys : SeqsUpTo(DecodingEntries, MaxDecKeys),
     leeway : 0..MaxTolerance,
     reject_tokens_expiring_in_less_than : 0..MaxTolerance,
     audience : {<<"web">>}]

\* the encoder of issuer A and the encoder of issuer B
EncoderConfigs ==
    {[encoding_keys |-> <<HmacInfo("k1", "s1"),
                          [algorithm |-> "RS256", form |-> "pem", kid |-> "k2", key |-> "r1"]>>],
     [encoding_keys |-> <<HmacInfo("k1", "s2"), HmacInfo("k2", "s2")>>]}

\* Permission::new_root and Permission::new_minimum of the crate
JwtNewRoot ==
    [methods |-> <<"ALL">>, resource_pattern |-> Some(<<"*">>), max_size |-> NoSize,
     allowed_content_types |-> << <<"*">> >>]
JwtNewMinimum ==
    [methods |-> <<>>, resource_pattern |-> [some |-> FALSE, v |-> <<>>],
     max_size |-> Some(0), allowed_content_types |-> <<>>]

JwClaims ==
    [iss : {"A", "B", "C"}, aud : {<<"web">>, <<"other">>},
     exp : (JwNow - 1)..(JwNow + 1), nbf : JwNow..(JwNow + 1),
     iat : {JwNow}, jti : {1}, load : {JwtNewRoot, JwtNewMinimum}]

JwKids == {"k1", "k2", "k3"}

\* a claims envelope every decoder of DecoderConfigs accepts once its key is found
JwGoodClaims(iss) ==
    [iss |-> iss, aud |-> <<"web">>, exp |-> JwNow + 1, nbf |-> JwNow, iat |-> JwNow,
     jti |-> 1, load |-> JwtNewRoot]

\* tokens another party presents: signed with either secret, with any kid or
\* none, claiming either issuer or none; a token whose payload was replaced
\* after signing; strings that are no token; and a token signed under HS384
PresentedTokens ==
    {LibEncode([alg |-> "HS256", kid |-> kid], body, [fam |-> "hmac", id |-> key]).v :
        kid \in {NoKid, Some("k1"), Some("k2")},
        body \in {JwtSerialize(JwGoodClaims("A")), JwtSerialize(JwGoodClaims("B")),
                  [exp |-> JwNow + 1]},
        key \in {"s1", "s2"}}
    \cup {[LibEncode([alg |-> "HS256", kid |-> Some("k1")], JwtSerialize(JwGoodClaims("A")),
                     [fam |-> "hmac", id |-> "s1"]).v
               EXCEPT !.body = JwtSerialize(JwGoodClaims("B"))],
          [LibEncode([alg |-> "HS256", kid |-> Some("k1")], JwtSerialize(JwGoodClaims("A")),
                     [fam |-> "hmac", id |-> "s1"]).v EXCEPT !.wf = "parts"],
          [LibEncode([alg |-> "HS256", kid |-> Some("k1")], JwtSerialize(JwGoodClaims("A")),
                     [fam |-> "hmac", id |-> "s1"]).v EXCEPT !.wf = "b64"],
          LibEncode([alg |-> "HS384", kid |-> Some("k1")], JwtSerialize(JwGoodClaims("A")),
                    [fam |-> "hmac", id |-> "s1"]).v}

InitJwt ==
    /\ path_rules = <<>>
    /\ rl = NoQuery
    /\ mw = MwOff
    /\ inner_calls = 0
    /\ \E dc \in DecoderConfigs, ec \in EncoderConfigs :
          /\ DecoderTryFrom(dc).ok
          /\ EncoderTryFrom(ec).ok
          /\ jw = [pc |-> "ready", dec |-> DecoderTryFrom(dc).v, enc |-> EncoderTryFrom(ec).v]

\* JwtEncoder::encode(claims, kid)
Encode(claims, kid) ==
    /\ jw.pc = "ready"
    /\ LET r == JwtEncoderEncode(jw.enc, claims, kid)
       IN  jw' = IF r.ok
                 THEN [pc |-> "issued", dec |-> jw.dec, enc |-> jw.enc, by |-> "encode",
                       claims |-> claims, kid |-> kid, tok |-> r.v]
                 ELSE [pc |-> "refused", dec |-> jw.dec, enc |-> jw.enc, by |-> "encode",
                       claims |-> claims, kid |-> kid, res |-> r]
    /\ UNCHANGED <<path_rules, rl, mw, inner_calls>>

\* a token arrives that this encoder did not issue
Present(tok) ==
    /\ jw.pc = "ready"
    /\ jw' = [pc |-> "issued", dec |-> jw.dec, enc |-> jw.enc, by |-> "other",
              claims |-> JwGoodClaims("A"), kid |-> "", tok |-> tok]
    /\ UNCHANGED <<path_rules, rl, mw, inner_calls>>

\* JwtDecoder::decode(token)
Decode ==
    /\ jw.pc = "issued"
    /\ jw' = [pc |-> "decoded", dec |-> jw.dec, enc |-> jw.enc, by |-> jw.by,
              claims |-> jw.claims, kid |-> jw.kid, tok |-> jw.tok,
              res |-> JwtDecoderDecode(jw.dec, jw.tok, JwNow)]
    /\ UNCHANGED <<path_rules, rl, mw, inner_calls>>

NextJwt ==
    \/ jw.pc = "ready" /\ \E claims \in JwClaims, kid \in JwKids : Encode(claims, kid)
    \/ jw.pc = "ready" /\ \E tok \in PresentedTokens : Present(tok)
    \/ Decode

SpecJwt == InitJwt /\ [][NextJwt]_vars

(***************************************************************************)
(* Claims on SpecJwt                                                       *)
(***************************************************************************)
JwDecoded == jw.pc = "decoded"
JwKeys == jw.dec.decoding_keys
\* the token's header and payload can be read, and the header names a kid
JwReadable ==
    /\ jw.tok.wf = "ok" /\ jw.tok.kid.some
    /\ JwtDeserialize(jw.tok.body).ok
JwPair == <<jw.tok.body.iss, jw.tok.kid.v>>
JwSignedWith(key) == Verify(jw.tok.sig, Message(jw.tok, jw.tok.body), key, jw.tok.alg)

\* C2: decode accepts a token only if its signature verifies under the key
\* registered for exactly (iss of the payload, kid of the header); a token
\* signed with the key of (A, kid) that claims issuer B is not accepted unless
\* the key registered for (B, kid) verifies it.
C2_AcceptedOnlyUnderIssKidKey ==
    (JwDecoded /\ jw.res.ok) =>
        /\ JwReadable
        /\ JwPair \in DOMAIN JwKeys
        /\ JwSignedWith(JwKeys[JwPair])
        /\ \A k \in DOMAIN JwKeys :
              (JwSignedWith(JwKeys[k]) /\ k[1] # jw.tok.body.iss) => JwKeys[JwPair] = JwKeys[k]

\* C2 witness: (A, k1) and (B, k1) are registered with different keys; a token
\* signed with A's key and claiming B was decoded, and refused.
C2_Witness ==
    /\ JwDecoded /\ JwReadable
    /\ jw.tok.body.iss = "B" /\ jw.tok.kid.v = "k1"
    /\ {<<"A", "k1">>, <<"B", "k1">>} \subseteq DOMAIN JwKeys
    /\ JwKeys[<<"A", "k1">>] # JwKeys[<<"B", "k1">>]
    /\ JwSignedWith(JwKeys[<<"A", "k1">>])
    /\ jw.res.err = "InvalidSignature"

\* the claims are valid at decode time: exp not passed, nbf reached, iss
\* trusted, aud accepted
JwClaimsValid(claims) ==
    /\ claims.exp > JwNow
    /\ claims.nbf <= JwNow
    /\ claims.iss \in jw.dec.validation.iss.v
    /\ {claims.aud[i] : i \in 1..Len(claims.aud)} \cap jw.dec.validation.aud.v # {}

\* the decoder has, for (iss, kid), the decoding key of the encoder's key
JwMatchingKey(claims, kid) ==
    /\ <<claims.iss, kid>> \in DOMAIN JwKeys
    /\ JwKeys[<<claims.iss, kid>>] = jw.enc.encoding_key[kid].key

\* C8: round trip: for claims valid at decode time and a kid of the encoder,
\* a decoder with a matching (iss, kid) key decodes encode(claims, kid) to
\* claims equal to the ones encoded.
C8_RoundTrip ==
    (/\ JwDecoded /\ jw.by = "encode"
     /\ JwClaimsValid(jw.claims) /\ JwMatchingKey(jw.claims, jw.kid))
    => jw.res.ok /\ jw.res.v = jw.claims

\* C9: when no decoding key is registered for (iss of the payload, kid of the
\* header), decode fails with InvalidIssuer, also when the issuer is
\* registered under another kid or the kid under another issuer.
C9_NoKeyIsInvalidIssuer ==
    (JwDecoded /\ JwReadable /\ JwPair \notin DOMAIN JwKeys)
    => ~jw.res.ok /\ jw.res.err = "InvalidIssuer"

\* C9 witness: the issuer is registered, under another kid only, and the kid
\* is registered, under another issuer only.
C9_Witness ==
    /\ JwDecoded /\ JwReadable /\ JwPair \notin DOMAIN JwKeys
    /\ \E k \in DOMAIN JwKeys : k[1] = JwPair[1]
    /\ \E k \in DOMAIN JwKeys : k[2] = JwPair[2]
    /\ jw.res.err = "InvalidIssuer"

\* C10: a token whose header carries no kid is rejected with
\* MissingClaim("kid"), whatever keys are registered.
C10_NoKidIsMissingClaim ==
    (JwDecoded /\ jw.tok.wf = "ok" /\ ~jw.tok.kid.some)
    => ~jw.res.ok /\ jw.res.err = "MissingClaim(kid)"

\* C10 witness: a token without kid whose signature a registered key verifies
\* and whose claims are valid was rejected.
C10_Witness ==
    /\ JwDecoded /\ jw.tok.wf = "ok" /\ ~jw.tok.kid.some
    /\ JwtDeserialize(jw.tok.body).ok
    /\ \E k \in DOMAIN JwKeys : JwSignedWith(JwKeys[k]) /\ k[1] = jw.tok.body.iss
    /\ jw.res.err = "MissingClaim(kid)"

\* the algorithms the decoder's policy permits
JwPermittedAlgs == {jw.dec.validation.algorithms[i] : i \in 1..Len(jw.dec.validation.algorithms)}

\* C11: a token whose header algorithm is not among the algorithms the
\* decoder permits is rejected with InvalidAlgorithm (stated for a readable
\* token whose (iss, kid) key is registered, so that the policy is reached).
C11_UnpermittedAlgIsInvalidAlgorithm ==
    (/\ JwDecoded /\ JwReadable /\ JwPair \in DOMAIN JwKeys
     /\ jw.tok.alg \notin JwPermittedAlgs)
    => ~jw.res.ok /\ jw.res.err = "InvalidAlgorithm"

(***************************************************************************)
(* SpecTime: one decoder with a leeway and a near-expiry tolerance; a      *)
(* token is issued with exp and nbf set relative to the issue instant, the *)
(* clock advances, and the token is decoded                                *)
(***************************************************************************)
MaxLeeway == 2
MaxSkew == 3
MaxWait == 3

DefaultLifetime == 3600

\* Jwt::new(iss, aud, payload) at the instant now
JwtNew(iss, aud, payload, now) ==
    [iss |-> iss, aud |-> aud, exp |-> now + DefaultLifetime, nbf |-> now, iat |-> now,
     jti |-> 1, load |-> payload]

\* Jwt::expires_in(duration) and Jwt::not_valid_in(duration) at the instant now
expires_in(jwt, duration, now) == [jwt EXCEPT !.exp = now + duration]
not_valid_in(jwt, duration, now) == [jwt EXCEPT !.nbf = now + duration]

\* the decoder of the tests: JwtDecoder::new for one key, then leeway and
\* reject_tokens_expiring_in_less_than
TimeDecoder(leeway, tolerance) ==
    JwtDecoderNew([k \in {<<"A", "k1">>} |-> [fam |-> "hmac", id |-> "s1"]],
                  <<"HS256">>, <<"A">>, <<"web">>, tolerance, leeway)

TimeEncoder == EncoderTryFrom([encoding_keys |-> <<HmacInfo("k1", "s1")>>]).v

InitTime ==
    /\ path_rules = <<>>
    /\ rl = NoQuery
    /\ mw = MwOff
    /\ inner_calls = 0
    /\ \E leeway \in 0..MaxLeeway, tolerance \in 0..MaxLeeway :
          jw = [pc |-> "ready", dec |-> TimeDecoder(leeway, tolerance), enc |-> TimeEncoder,
                t0 |-> JwNow, now |-> JwNow]

\* a token is built and encoded at the issue instant
Issue(de, dn) ==
    /\ jw.pc = "ready"
    /\ LET claims == not_valid_in(expires_in(JwtNew("A", <<"web">>, JwtNewRoot, jw.now),
                                             de, jw.now), dn, jw.now)
       IN  jw' = [pc |-> "issued", dec |-> jw.dec, enc |-> jw.enc, t0 |-> jw.t0,
                  now |-> jw.now, claims |-> claims,
                  tok |-> JwtEncoderEncode(jw.enc, claims, "k1").v]
    /\ UNCHANGED <<path_rules, rl, mw, inner_calls>>

\* a second passes before the token is decoded
Tick ==
    /\ jw.pc = "issued"
    /\ jw.now < jw.t0 + MaxWait
    /\ jw' = [jw EXCEPT !.now = @ + 1]
    /\ UNCHANGED <<path_rules, rl, mw, inner_calls>>

\* JwtDecoder::decode(token) at the current instant
DecodeAt ==
    /\ jw.pc = "issued"
    /\ jw' = [pc |-> "decoded", dec |-> jw.dec, enc |-> jw.enc, t0 |-> jw.t0,
              now |-> jw.now, claims |-> jw.claims, tok |-> jw.tok,
              res |-> JwtDecoderDecode(jw.dec, jw.tok, jw.now)]
    /\ UNCHANGED <<path_rules, rl, mw, inner_calls>>

NextTime ==
    \/ jw.pc = "ready" /\ \E de \in (0 - MaxSkew)..MaxSkew, dn \in (0 - MaxSkew)..MaxSkew :
                            Issue(de, dn)
    \/ Tick
    \/ DecodeAt

SpecTime == InitTime /\ [][NextTime]_vars

(***************************************************************************)
(* Claims on SpecTime                                                      *)
(***************************************************************************)
TmLeeway == jw.dec.validation.leeway
TmTolerance == jw.dec.validation.reject_tokens_expiring_in_less_than
TmExp == jw.claims.exp
TmNbf == jw.claims.nbf
TmNow == jw.now

\* C12: expiry boundary, for a decoder whose near-expiry tolerance is the 0
\* of JwtDecoder::new and a token whose nbf is reached: exp = now - 1 is
\* refused with TokenExpired under leeway 0 and accepted under leeway >= 2; a
\* token past its exp by no more than the leeway is accepted.
C12_ExpiryLeeway ==
    (JwDecoded /\ TmTolerance = 0 /\ TmNbf <= TmNow) =>
        /\ (TmExp = TmNow - 1 /\ TmLeeway = 0) => (~jw.res.ok /\ jw.res.err = "TokenExpired")
        /\ (TmExp = TmNow - 1 /\ TmLeeway >= 2) => jw.res.ok
        /\ (TmExp < TmNow /\ TmNow - TmExp <= TmLeeway) => jw.res.ok

\* C12 witness: the token expired a second ago and the decoder with leeway 2
\* accepted it.
C12_Witness ==
    /\ JwDecoded /\ TmTolerance = 0 /\ TmLeeway = 2
    /\ TmExp = TmNow - 1 /\ TmNbf <= TmNow
    /\ jw.res.ok

C15_NbfAfterExpNeverValid ==
    (JwDecoded /\ TmNbf > TmExp) => ~jw.res.ok

(***************************************************************************)
(* SpecAud: a decoder with a set of accepted audiences decodes tokens      *)
(* issued for a list of audiences                                          *)
(***************************************************************************)
MaxAuds == 2

Audiences == {"my-api", "service-b", "other-app"}
AudienceLists == SeqsUpTo(Audiences, MaxAuds)

\* JwtDecoder::possible_audience(aud)
possible_audience(dec, aud) ==
    [dec EXCEPT !.validation.aud = Some({aud[i] : i \in 1..Len(aud)})]

InitAud ==
    /\ path_rules = <<>>
    /\ rl = NoQuery
    /\ mw = MwOff
    /\ inner_calls = 0
    /\ \E accepted \in AudienceLists :
          jw = [pc |-> "ready", dec |-> possible_audience(TimeDecoder(0, 0), accepted),
                enc |-> TimeEncoder, t0 |-> JwNow, now |-> JwNow]

\* a token for the audiences aud, expiring de seconds from now, is encoded
IssueFor(aud, de) ==
    /\ jw.pc = "ready"
    /\ LET claims == expires_in(JwtNew("A", aud, JwtNewRoot, jw.now), de, jw.now)
       IN  jw' = [pc |-> "issued", dec |-> jw.dec, enc |-> jw.enc, t0 |-> jw.t0,
                  now |-> jw.now, claims |-> claims,
                  tok |-> JwtEncoderEncode(jw.enc, claims, "k1").v]
    /\ UNCHANGED <<path_rules, rl, mw, inner_calls>>

NextAud ==
    \/ jw.pc = "ready" /\ \E aud \in AudienceLists, de \in {-1, 1} : IssueFor(aud, de)
    \/ DecodeAt

SpecAud == InitAud /\ [][NextAud]_vars

AudOfToken == {jw.claims.aud[i] : i \in 1..Len(jw.claims.aud)}
AudAccepted == jw.dec.validation.aud.v

\* C16: with every other check passing (key, signature, issuer, exp, nbf),
\* decode fails with InvalidAudience when the token's aud list shares no
\* element with the accepted audiences and succeeds when it contains at
\* least one of them, whatever else it lists.
C16_AudienceIntersection ==
    (JwDecoded /\ jw.claims.exp > jw.now) =>
        /\ AudOfToken \cap AudAccepted = {} => (~jw.res.ok /\ jw.res.err = "InvalidAudience")
        /\ AudOfToken \cap AudAccepted # {} => (jw.res.ok /\ jw.res.v = jw.claims)

\* C16 witness: the token lists an audience the decoder does not accept next
\* to one it accepts, and was decoded.
C16_Witness ==
    /\ JwDecoded /\ jw.claims.exp > jw.now
    /\ AudOfToken \cap AudAccepted # {}
    /\ AudOfToken \ AudAccepted # {}
    /\ jw.res.ok

(***************************************************************************)
(* crab-vault-auth: Permission and CompiledPermission                      *)
(***************************************************************************)
NoPattern == [some |-> FALSE, v |-> <<>>]

\* every value of enum HttpMethod
HttpMethods == ReqMethods \cup {"ALL", "SAFE", "UNSAFE"}

\* a variant of safe that counts CONNECT as safe
safe_WithConnect(method) == method \in {"SAFE", "GET", "HEAD", "OPTIONS", "TRACE", "CONNECT"}

\* HttpMethod::safe
safe(method) ==
    CASE method \in {"SAFE", "GET", "HEAD", "OPTIONS", "TRACE"} -> TRUE
      [] method \in {"UNSAFE", "CONNECT", "POST", "PUT", "PATCH", "DELETE", "OTHER", "ALL"} -> FALSE

\* Permission::permit_method
permit_method(perm, methods) == [perm EXCEPT !.methods = methods]

\* Permission::permit_resource_pattern_option
permit_resource_pattern_option(perm, pattern) == [perm EXCEPT !.resource_pattern = pattern]

\* Permission::restrict_maximum_size_option
restrict_maximum_size_option(perm, max) == [perm EXCEPT !.max_size = max]

\* Permission::permit_content_type
permit_content_type(perm, content_type) == [perm EXCEPT !.allowed_content_types = content_type]

\* Permission::compile: the loop pushing every content type that compiles
RECURSIVE CompileContentTypes(_)
CompileContentTypes(allowed) ==
    IF allowed = <<>> THEN <<>>
    ELSE (IF PatternNew(Head(allowed)).ok THEN <<PatternNew(Head(allowed))>> ELSE <<>>)
         \o CompileContentTypes(Tail(allowed))

\* a variant of compile in which an entry that is not a valid glob is kept
\* as a pattern that matches everything
PermissionCompile_KeepInvalid(perm) ==
    [methods |-> perm.methods,
     resource_pattern |-> perm.resource_pattern,
     max_size |-> perm.max_size,
     allowed_content_types |-> perm.allowed_content_types,
     resource_pattern_cache |->
        IF perm.resource_pattern.some /\ PatternNew(perm.resource_pattern.v).ok
        THEN Some(PatternNew(perm.resource_pattern.v))
        ELSE [some |-> FALSE, v |-> PatternNew(<<>>)],
     allowed_content_types_cache |->
        [i \in 1..Len(perm.allowed_content_types) |->
            IF PatternNew(perm.allowed_content_types[i]).ok
            THEN PatternNew(perm.allowed_content_types[i])
            ELSE PatternNew(<<"*">>)]]

\* Permission::compile
PermissionCompile(perm) ==
    [methods |-> perm.methods,
     resource_pattern |-> perm.resource_pattern,
     max_size |-> perm.max_size,
     allowed_content_types |-> perm.allowed_content_types,
     resource_pattern_cache |->
        IF perm.resource_pattern.some /\ PatternNew(perm.resource_pattern.v).ok
        THEN Some(PatternNew(perm.resource_pattern.v))
        ELSE [some |-> FALSE, v |-> PatternNew(<<>>)],
     allowed_content_types_cache |-> CompileContentTypes(perm.allowed_content_types)]

Contains(seq, x) == \E i \in 1..Len(seq) : seq[i] = x

\* a variant of can_perform_method that knows no All entry
can_perform_method_NoAll(cp, method) ==
    \/ Contains(cp.methods, method)
    \/ (Contains(cp.methods, "SAFE") /\ safe(method))
    \/ (Contains(cp.methods, "UNSAFE") /\ ~safe(method))

\* CompiledPermission::can_perform_method
can_perform_method(cp, method) ==
    \/ Contains(cp.methods, "ALL")
    \/ Contains(cp.methods, method)
    \/ (Contains(cp.methods, "SAFE") /\ safe(method))
    \/ (Contains(cp.methods, "UNSAFE") /\ ~safe(method))

\* a variant of can_access in which an absent pattern grants every path
can_access_NoneGrants(cp, path) ==
    IF cp.resource_pattern_cache.some
    THEN PatternMatches(cp.resource_pattern_cache.v, path)
    ELSE TRUE

\* CompiledPermission::can_access
can_access(cp, path) ==
    IF cp.resource_pattern_cache.some
    THEN PatternMatches(cp.resource_pattern_cache.v, path)
    ELSE FALSE

\* a variant of check_size whose bound is exclusive
check_size_Exclusive(cp, size) == ~cp.max_size.some \/ size < cp.max_size.v

\* CompiledPermission::check_size
check_size(cp, size) == ~cp.max_size.some \/ size <= cp.max_size.v

\* a variant of check_content_type that wants every compiled glob to match
check_content_type_All(cp, content_type) ==
    \A i \in 1..Len(cp.allowed_content_types_cache) :
        PatternMatches(cp.allowed_content_types_cache[i], content_type)

\* CompiledPermission::check_content_type
check_content_type(cp, content_type) ==
    \E i \in 1..Len(cp.allowed_content_types_cache) :
        PatternMatches(cp.allowed_content_types_cache[i], content_type)

(***************************************************************************)
(* SpecPerm: a Permission is compiled and asked one question               *)
(***************************************************************************)
MaxMethods == 2    \* entries of a Permission's methods
MaxPatLen == 2     \* characters of an enumerated resource pattern

StrUsersStar == <<"/", "u", "s", "e", "r", "s", "/", "*">>    \* "/users/*"
StrUsersAny == <<"/", "u", "s", "e", "r", "s", "/", "?">>    \* "/users/?"
StrFilesStar == <<"/", "f", "i", "l", "e", "s", "/", "*">>    \* "/files/*"
StrUsersProfile == <<"/", "u", "s", "e", "r", "s", "/", "?", "*", "/", "p", "r", "o", "f", "i", "l", "e">>    \* "/users/?*/profile"
StrApiV1Star == <<"/", "a", "p", "i", "/", "v", "1", "/", "*">>    \* "/api/v1/*"
StrUsers == <<"/", "u", "s", "e", "r", "s">>    \* "/users"
StrUsersSlash == <<"/", "u", "s", "e", "r", "s", "/">>    \* "/users/"
StrUsers1 == <<"/", "u", "s", "e", "r", "s", "/", "1">>    \* "/users/1"
StrUsers123 == <<"/", "u", "s", "e", "r", "s", "/", "1", "2", "3">>    \* "/users/123"
StrUsersAbcDef == <<"/", "u", "s", "e", "r", "s", "/", "a", "b", "c", "-", "d", "e", "f">>    \* "/users/abc-def"
StrUsers123Profile == <<"/", "u", "s", "e", "r", "s", "/", "1", "2", "3", "/", "p", "r", "o", "f", "i", "l", "e">>    \* "/users/123/profile"
StrFilesSubdir == <<"/", "f", "i", "l", "e", "s", "/", "s", "u", "b", "d", "i", "r", "e", "c", "t", "o", "r", "y", "/", "f", "i", "l", "e", ".", "t", "x", "t">>    \* "/files/subdirectory/file.txt"
StrAnyPath == <<"/", "a", "n", "y", "/", "p", "a", "t", "h">>    \* "/any/path"
StrImageStar == <<"i", "m", "a", "g", "e", "/", "*">>    \* "image/*"
StrImagePng == <<"i", "m", "a", "g", "e", "/", "p", "n", "g">>    \* "image/png"
StrImageJpeg == <<"i", "m", "a", "g", "e", "/", "j", "p", "e", "g">>    \* "image/jpeg"
StrTextPlain == <<"t", "e", "x", "t", "/", "p", "l", "a", "i", "n">>    \* "text/plain"

MethodLists == SeqsUpTo(HttpMethods, MaxMethods)

ResourcePatterns ==
    {StrUsersStar, StrUsersAny, StrFilesStar, StrUsersProfile, StrApiV1Star}
        \cup SeqsUpTo({Sep, "u", "*", "?", "["}, MaxPatLen)

AccessPaths ==
    {StrUsers, StrUsersSlash, StrUsers1, StrUsers123, StrUsersAbcDef,
     StrUsers123Profile, StrFilesSubdir, StrAnyPath}
        \cup SeqsUpTo({Sep, "u"}, MaxPathLen)

ContentTypeLists ==
    {<<>>, <<<<"*">>>>, <<StrImageStar>>, <<StrImagePng, StrImageJpeg>>,
     <<<<"[">>, StrImageStar>>, <<StrTextPlain, <<"*">>>>, <<<<"[">>>>,
     <<StrImagePng, StrImageStar>>}

ContentTypes == {StrImagePng, StrImageJpeg, StrTextPlain, <<>>}

\* restrict_maximum_size(1024) of the tests, and the sizes asked about
TestMaxSize == 1024
AskedSizes == 0..(MaxSize + 1) \cup {TestMaxSize - 1, TestMaxSize, TestMaxSize + 1}

\* the permissions a token may carry: root, minimum, and the minimum with
\* one of its fields replaced
Permissions ==
    {JwtNewRoot, JwtNewMinimum}
        \cup {permit_method(JwtNewMinimum, ms) : ms \in MethodLists}
        \cup {permit_resource_pattern_option(JwtNewMinimum, Some(p)) : p \in ResourcePatterns}
        \cup {restrict_maximum_size_option(JwtNewMinimum, sz) :
                sz \in {NoSize, Some(TestMaxSize)} \cup {Some(n) : n \in 0..MaxSize}}
        \cup {permit_content_type(JwtNewMinimum, cts) : cts \in ContentTypeLists}

InitPerm ==
    /\ path_rules = <<>>
    /\ rl = NoQuery
    /\ mw = MwOff
    /\ inner_calls = 0
    /\ \E perm \in Permissions : jw = [pc |-> "compiled", perm |-> PermissionCompile(perm)]

Asked(op, arg, res) ==
    jw' = [pc |-> "asked", perm |-> jw.perm, op |-> op, arg |-> arg, res |-> res]

AskMethod(method) ==
    /\ jw.pc = "compiled"
    /\ Asked("can_perform_method", method, can_perform_method(jw.perm, method))
    /\ UNCHANGED <<path_rules, rl, mw, inner_calls>>

AskAccess(path) ==
    /\ jw.pc = "compiled"
    /\ Asked("can_access", path, can_access(jw.perm, path))
    /\ UNCHANGED <<path_rules, rl, mw, inner_calls>>

AskSize(size) ==
    /\ jw.pc = "compiled"
    /\ Asked("check_size", size, check_size(jw.perm, size))
    /\ UNCHANGED <<path_rules, rl, mw, inner_calls>>

AskContentType(content_type) ==
    /\ jw.pc = "compiled"
    /\ Asked("check_content_type", content_type, check_content_type(jw.perm, content_type))
    /\ UNCHANGED <<path_rules, rl, mw, inner_calls>>

NextPerm ==
    \/ jw.pc = "compiled" /\ \E method \in ReqMethods : AskMethod(method)
    \/ jw.pc = "compiled" /\ \E path \in AccessPaths : AskAccess(path)
    \/ jw.pc = "compiled" /\ \E size \in AskedSizes : AskSize(size)
    \/ jw.pc = "compiled" /\ \E content_type \in ContentTypes : AskContentType(content_type)

SpecPerm == InitPerm /\ [][NextPerm]_vars

PmAsked(op) == jw.pc = "asked" /\ jw.op = op

\* C17: can_perform_method(method) is true exactly when methods contain All,
\* or method itself, or Safe with a read-only method, or Unsafe with a method
\* that is not read-only; GET, HEAD, OPTIONS and TRACE are the read-only
\* methods, POST, PUT, PATCH, DELETE, CONNECT and non-standard ones are not.
C17_CanPerformMethod ==
    PmAsked("can_perform_method") =>
        LET ms == {jw.perm.methods[i] : i \in 1..Len(jw.perm.methods)}
            readOnly == jw.arg \in {"GET", "HEAD", "OPTIONS", "TRACE"}
            notReadOnly == jw.arg \in {"POST", "PUT", "PATCH", "DELETE", "CONNECT", "OTHER"}
        IN  /\ readOnly # notReadOnly
            /\ jw.res <=> \/ "ALL" \in ms
                          \/ jw.arg \in ms
                          \/ ("SAFE" \in ms /\ readOnly)
                          \/ ("UNSAFE" \in ms /\ notReadOnly)

\* C17 witness: a permission holding only Unsafe was asked about CONNECT and
\* granted it.
C17_Witness ==
    /\ PmAsked("can_perform_method")
    /\ jw.perm.methods = <<"UNSAFE">>
    /\ jw.arg = "CONNECT"
    /\ jw.res

PmPattern == jw.perm.resource_pattern

\* C18: can_access(path) is false for every path when resource_pattern is
\* absent or not valid glob syntax; otherwise it is the glob match of the
\* pattern against the path: /users/* grants /users/123 and /users/abc-def
\* and does not grant bare /users.
C18_CanAccess ==
    PmAsked("can_access") =>
        /\ ~PmPattern.some => ~jw.res
        /\ (PmPattern.some /\ ~PatternNew(PmPattern.v).ok) => ~jw.res
        /\ (PmPattern.some /\ PatternNew(PmPattern.v).ok) =>
                (jw.res <=> PatternMatches(PatternNew(PmPattern.v), jw.arg))
        /\ (PmPattern.some /\ PmPattern.v = StrUsersStar) =>
                /\ jw.arg \in {StrUsers123, StrUsersAbcDef} => jw.res
                /\ jw.arg = StrUsers => ~jw.res

\* C18 witness: a permission for /users/* was asked about /users/abc-def and
\* granted it.
C18_Witness ==
    /\ PmAsked("can_access")
    /\ PmPattern.some /\ PmPattern.v = StrUsersStar
    /\ jw.arg = StrUsersAbcDef
    /\ jw.res

IsLiteral(str) == \A i \in 1..Len(str) : str[i] \notin {"*", "?", "["}
PmPrefix == SubSeq(PmPattern.v, 1, Len(PmPattern.v) - 1)
PmLast == PmPattern.v[Len(PmPattern.v)]
PmRest == SubSeq(jw.arg, Len(PmPrefix) + 1, Len(jw.arg))
PmPrefixMatches ==
    /\ Len(jw.arg) >= Len(PmPrefix)
    /\ SubSeq(jw.arg, 1, Len(PmPrefix)) = PmPrefix

\* C19: in resource-pattern matching `*` matches a run of one or more
\* characters that stays within one path segment (never the empty string,
\* so an empty remainder after the literal prefix does not match), and `?`
\* matches exactly one character.
C19_StarOneOrMoreWithinSegment ==
    (PmAsked("can_access") /\ PmPattern.some /\ PmPattern.v # <<>> /\ IsLiteral(PmPrefix)) =>
        /\ PmLast = "*" =>
              (jw.res <=> /\ PmPrefixMatches
                          /\ PmRest # <<>>
                          /\ \A i \in 1..Len(PmRest) : PmRest[i] # Sep)
        /\ PmLast = "?" =>
              (jw.res <=> PmPrefixMatches /\ Len(PmRest) = 1)

\* C20: check_content_type(type) is true exactly when at least one compiled
\* allowed_content_types glob matches type: false for every type when the
\* list is empty, true for every type when the list contains `*`, and with
\* [image/*] true for image/png and false for text/plain.
C20_CheckContentType ==
    PmAsked("check_content_type") =>
        LET allowed == jw.perm.allowed_content_types
        IN  /\ jw.res <=> \E i \in 1..Len(allowed) :
                            /\ PatternNew(allowed[i]).ok
                            /\ PatternMatches(PatternNew(allowed[i]), jw.arg)
            /\ allowed = <<>> => ~jw.res
            /\ Contains(allowed, <<"*">>) => jw.res
            /\ allowed = <<StrImageStar>> =>
                    /\ jw.arg = StrImagePng => jw.res
                    /\ jw.arg = StrTextPlain => ~jw.res

\* C20 witness: a permission whose second content type is image/* (the first
\* does not compile) was asked about image/png and allowed it.
C20_Witness ==
    /\ PmAsked("check_content_type")
    /\ Len(jw.perm.allowed_content_types) = 2
    /\ Len(jw.perm.allowed_content_types_cache) = 1
    /\ jw.arg = StrImagePng
    /\ jw.res

\* C21: check_size(n) is true exactly when max_size is absent or
\* n <= max_size: the bound is inclusive (with max_size 1024, 1024 passes and
\* 1025 fails) and max_size Some(0) admits only n = 0.
C21_CheckSizeInclusive ==
    PmAsked("check_size") =>
        LET max == jw.perm.max_size
        IN  /\ jw.res <=> (~max.some \/ jw.arg <= max.v)
            /\ max = Some(TestMaxSize) =>
                    /\ jw.arg = TestMaxSize => jw.res
                    /\ jw.arg = TestMaxSize + 1 => ~jw.res
            /\ max = Some(0) => (jw.res <=> jw.arg = 0)

\* C21 witness: a permission limited to 1024 bytes was asked about exactly
\* 1024 bytes and allowed them.
C21_Witness ==
    /\ PmAsked("check_size")
    /\ jw.perm.max_size = Some(TestMaxSize)
    /\ jw.arg = TestMaxSize
    /\ jw.res

PmValidGlob(entry) == PatternNew(entry).ok
PmValidEntries == SelectSeq(jw.perm.allowed_content_types, PmValidGlob)

\* C22: compile never fails: for every Permission, also one whose
\* allowed_content_types holds entries that are not valid globs, it returns a
\* CompiledPermission in which each invalid entry is omitted and so matches
\* no content type, while the valid entries match as they do without the
\* invalid ones.
C22_CompileOmitsInvalid ==
    jw.pc \in {"compiled", "asked"} =>
        /\ jw.perm.allowed_content_types_cache =
                [i \in 1..Len(PmValidEntries) |-> PatternNew(PmValidEntries[i])]
        /\ PmAsked("check_content_type") =>
                (jw.res <=> check_content_type(
                                PermissionCompile(permit_content_type(JwtNewMinimum, PmValidEntries)),
                                jw.arg))

\* C22 witness: a permission whose only content type is not a valid glob was
\* compiled, asked about a content type and refused it.
C22_Witness ==
    /\ PmAsked("check_content_type")
    /\ Len(jw.perm.allowed_content_types) = 1
    /\ jw.perm.allowed_content_types_cache = <<>>
    /\ ~jw.res

(***************************************************************************)
(* SpecLoad: a token carrying a Permission is encoded, decoded, and the    *)
(* Permission of an accepted token is compiled                             *)
(***************************************************************************)
ContentTypeLimit == 8        \* patterns.len() <= 8
ContentTypeLenLimit == 128   \* s.len() <= 128
MaxExcess == 1               \* how far an issued Permission goes beyond either limit

\* Permission::validate_content_type_pattern, true for Ok(())
validate_content_type_pattern(patterns) ==
    /\ Len(patterns) <= ContentTypeLimit
    /\ \A i \in 1..Len(patterns) : Len(patterns[i]) <= ContentTypeLenLimit

\* a content type of n bytes
TypeOfLen(n) == [i \in 1..n |-> "a"]

LoadEntries ==
    {StrImageStar} \cup {TypeOfLen(n) : n \in ContentTypeLenLimit..(ContentTypeLenLimit + MaxExcess)}

\* the Permissions an issuer puts into a token
Loads ==
    {permit_content_type(permit_resource_pattern_option(JwtNewMinimum, pat),
                         [i \in 1..n |-> entry]) :
        pat \in {NoPattern, Some(<<"*">>)},
        n \in 0..(ContentTypeLimit + MaxExcess),
        entry \in LoadEntries}

InitLoad ==
    /\ path_rules = <<>>
    /\ rl = NoQuery
    /\ mw = MwOff
    /\ inner_calls = 0
    /\ jw = [pc |-> "ready", dec |-> TimeDecoder(0, 0), enc |-> TimeEncoder,
             t0 |-> JwNow, now |-> JwNow]

\* a token for audience aud carrying the Permission load is encoded
IssueLoad(aud, load) ==
    /\ jw.pc = "ready"
    /\ LET claims == JwtNew("A", aud, load, jw.now)
       IN  jw' = [pc |-> "issued", dec |-> jw.dec, enc |-> jw.enc, t0 |-> jw.t0,
                  now |-> jw.now, claims |-> claims,
                  tok |-> JwtEncoderEncode(jw.enc, claims, "k1").v]
    /\ UNCHANGED <<path_rules, rl, mw, inner_calls>>

\* the Permission of the accepted token is compiled
CompileAccepted ==
    /\ jw.pc = "decoded"
    /\ jw.res.ok
    /\ jw' = [pc |-> "loaded", claims |-> jw.claims, res |-> jw.res,
              perm |-> PermissionCompile(jw.res.v.load)]
    /\ UNCHANGED <<path_rules, rl, mw, inner_calls>>

NextLoad ==
    \/ jw.pc = "ready" /\ \E aud \in {<<"web">>, <<"other">>}, load \in Loads : IssueLoad(aud, load)
    \/ DecodeAt
    \/ CompileAccepted

SpecLoad == InitLoad /\ [][NextLoad]_vars

\* C23: the Permission carried by any token that decode accepts has at most
\* 8 allowed_content_types entries of at most 128 bytes each, so compiling
\* it never compiles more than 8 content-type globs.
C23_AcceptedLoadIsBounded ==
    /\ (JwDecoded /\ jw.res.ok) =>
            validate_content_type_pattern(jw.res.v.load.allowed_content_types)
    /\ jw.pc = "loaded" => Len(jw.perm.allowed_content_types_cache) <= ContentTypeLimit

\* C24: a root Permission accepts every method (non-standard ones too),
\* every path, every body size and every content type; a minimum Permission
\* accepts no method, no path, no content type, and no body size but 0.
C24_RootAndMinimum ==
    jw.pc = "asked" =>
        /\ jw.perm = PermissionCompile(JwtNewRoot) => jw.res
        /\ jw.perm = PermissionCompile(JwtNewMinimum) =>
              (jw.res <=> (jw.op = "check_size" /\ jw.arg = 0))

\* C24 witness: the root permission was asked about a non-standard method and
\* granted it.
C24_Witness ==
    /\ PmAsked("can_perform_method")
    /\ jw.perm = PermissionCompile(JwtNewRoot)
    /\ jw.arg = "OTHER"
    /\ jw.res

(***************************************************************************)
(* SpecErr: an error is raised and turned into a response                  *)
(* An error is [enum, kind, data]: the enum it belongs to, its variant and *)
(* the data the variant carries.                                           *)
(***************************************************************************)
MaxLine == 1    \* largest line and column a JsonError reports

Algorithms == {"HS256", "HS384", "HS512", "RS256", "RS384", "RS512",
               "PS256", "PS384", "PS512", "ES256", "ES384", "EdDSA"}
ClaimNames == {"kid", "exp", "nbf", "iss", "aud", "sub"}
Details == {"", "details"}

Err(enum, kind, data) == [enum |-> enum, kind |-> kind, data |-> data]

\* enum AuthError of crab-vault-auth
CrateAuthErrors ==
    {Err("crab_vault_auth::AuthError", k, None) :
        k \in {"MissingAuthHeader", "InvalidKeyId", "InvalidAuthFormat", "InvalidToken",
               "TokenExpired", "TokenNotYetValid", "InvalidSignature", "InvalidIssuer",
               "InvalidAudience", "InvalidSubject", "InsufficientPermissions", "TokenRevoked"}}
    \cup {Err("crab_vault_auth::AuthError", "InvalidAlgorithm", a) : a \in Algorithms}
    \cup {Err("crab_vault_auth::AuthError", "MissingClaim", c) : c \in ClaimNames}
    \cup {Err("crab_vault_auth::AuthError", k, d) :
            k \in {"InvalidUtf8", "InvalidJson", "InvalidBase64", "InternalError"}, d \in Details}

\* enum AuthError of the server (error/auth.rs)
ServerAuthErrors ==
    {Err("AuthError", k, None) :
        k \in {"MissingAuthHeader", "InvalidAuthFormat", "TokenInvalid", "TokenExpired",
               "TokenNotYetValid", "InvalidSignature", "InvalidIssuer", "InvalidAudience",
               "InvalidSubject", "InsufficientPermissions", "TokenRevoked"}}
    \cup {Err("AuthError", "InvalidAlgorithm", a) : a \in Algorithms}
    \cup {Err("AuthError", "MissingClaim", c) : c \in ClaimNames}
    \cup {Err("AuthError", "InternalError", d) : d \in Details}

\* enum ClientError and enum ServerError (error/api.rs)
ApiErrors ==
    {Err("ClientError", k, None) :
        k \in {"MissingContentType", "InvalidContentType", "MissingContentLength",
               "BodyTooLarge", "UriInvalid", "ValueParsingError", "HeaderWithOpaqueBytes",
               "Base64DecodeError"}}
    \cup {Err("ClientError", "JsonError", [kind |-> k, line |-> l, col |-> c]) :
            k \in {"io", "syntax", "data", "eof"}, l \in 0..MaxLine, c \in 0..MaxLine}
    \cup {Err("ServerError", "Internal", None)}

\* IntoResponse for crab_vault_auth::AuthError: the status code
CrateAuthErrorStatus(e) ==
    IF e.kind \in {"MissingAuthHeader", "InvalidKeyId", "InvalidAuthFormat", "InvalidToken",
                   "TokenExpired", "TokenNotYetValid", "InvalidAlgorithm", "InvalidSignature",
                   "InvalidIssuer", "InvalidAudience", "InvalidSubject", "MissingClaim",
                   "InvalidUtf8", "InvalidJson", "InvalidBase64", "TokenRevoked"}
    THEN 401
    ELSE IF e.kind = "InsufficientPermissions" THEN 403
    ELSE 401

\* IntoResponse for AuthError (error/auth.rs): the status code
ServerAuthErrorStatus(e) ==
    IF e.kind \in {"MissingAuthHeader", "InvalidAuthFormat", "TokenInvalid", "TokenExpired",
                   "TokenNotYetValid", "InvalidAlgorithm", "InvalidSignature", "InvalidIssuer",
                   "InvalidAudience", "InvalidSubject", "MissingClaim", "TokenRevoked"}
    THEN 401
    ELSE IF e.kind = "InsufficientPermissions" THEN 403
    ELSE 500

\* a variant of ClientError::code that answers 413 to a body that is too large
ClientErrorCode_PayloadTooLarge(e) ==
    IF e.kind = "BodyTooLarge" THEN 413
    ELSE IF e.kind = "UriInvalid" THEN 404
    ELSE 422

\* ClientError::code
ClientErrorCode(e) ==
    IF e.kind \in {"MissingContentType", "InvalidContentType", "MissingContentLength",
                   "BodyTooLarge", "HeaderWithOpaqueBytes", "Base64DecodeError",
                   "ValueParsingError", "JsonError"}
    THEN 422
    ELSE 404

\* ServerError::code
ServerErrorCode(e) == 404

\* into_response: the status of the response an error becomes
IntoResponseStatus(e) ==
    CASE e.enum = "crab_vault_auth::AuthError" -> CrateAuthErrorStatus(e)
      [] e.enum = "AuthError" -> ServerAuthErrorStatus(e)
      [] e.enum = "ClientError" -> ClientErrorCode(e)
      [] e.enum = "ServerError" -> ServerErrorCode(e)

InitErr ==
    /\ path_rules = <<>>
    /\ rl = NoQuery
    /\ mw = MwOff
    /\ inner_calls = 0
    /\ jw = [pc |-> "running"]

\* a handler or the middleware fails with the error e
Raise(e) ==
    /\ jw.pc = "running"
    /\ jw' = [pc |-> "raised", err |-> e]
    /\ UNCHANGED <<path_rules, rl, mw, inner_calls>>

\* the error is converted into the response
Respond ==
    /\ jw.pc = "raised"
    /\ jw' = [pc |-> "responded", err |-> jw.err, status |-> IntoResponseStatus(jw.err)]
    /\ UNCHANGED <<path_rules, rl, mw, inner_calls>>

NextErr ==
    \/ jw.pc = "running" /\ \E e \in CrateAuthErrors \cup ServerAuthErrors \cup ApiErrors : Raise(e)
    \/ Respond

SpecErr == InitErr /\ [][NextErr]_vars

ErResponded == jw.pc = "responded"
ErIsAuth == jw.err.enum \in {"crab_vault_auth::AuthError", "AuthError"}

\* C25: every error kind maps to one fixed HTTP status: MissingAuthHeader,
\* InvalidAuthFormat, TokenInvalid, TokenExpired, TokenNotYetValid,
\* InvalidSignature, InvalidIssuer, InvalidAudience, InvalidSubject,
\* MissingClaim, TokenRevoked and InvalidAlgorithm give 401,
\* InsufficientPermissions gives 403, and the request-shape errors (missing
\* or invalid Content-Length, missing or invalid Content-Type, body too
\* large) give 422.
C25_StatusOfErrorKind ==
    ErResponded =>
        /\ (ErIsAuth /\ jw.err.kind \in
                {"MissingAuthHeader", "InvalidAuthFormat", "TokenInvalid", "TokenExpired",
                 "TokenNotYetValid", "InvalidSignature", "InvalidIssuer", "InvalidAudience",
                 "InvalidSubject", "MissingClaim", "TokenRevoked", "InvalidAlgorithm"})
              => jw.status = 401
        /\ (ErIsAuth /\ jw.err.kind = "InsufficientPermissions") => jw.status = 403
        /\ (jw.err.enum = "ClientError" /\ jw.err.kind \in
                {"MissingContentLength", "ValueParsingError", "MissingContentType",
                 "InvalidContentType", "BodyTooLarge"})
              => jw.status = 422

\* C25 witness: a body-too-large error was answered.
C25_Witness ==
    /\ ErResponded
    /\ jw.err.enum = "ClientError" /\ jw.err.kind = "BodyTooLarge"
    /\ jw.status = 422

(***************************************************************************)
(* SpecBuild: the encoder or the decoder is built from its configuration   *)
(***************************************************************************)
\* key descriptors: three that convert, and one for each way of failing
BuildInfos ==
    {HmacInfo("k1", "s1"),
     [algorithm |-> "RS256", form |-> "pem", kid |-> "k2", key |-> "r1"],
     [algorithm |-> "ES256", form |-> "der_file", kid |-> "k3", key |-> "e1"],
     [algorithm |-> "HS256", form |-> "pem", kid |-> "k1", key |-> "s1"],
     [algorithm |-> "HS256", form |-> "der", kid |-> "k3", key |-> NotBase64],
     [algorithm |-> "RS256", form |-> "der_file", kid |-> "k2", key |-> NoSuchFile],
     [algorithm |-> "RS256", form |-> "pem_file", kid |-> "k2", key |-> NoSuchFile],
     [algorithm |-> "RS256", form |-> "pem", kid |-> "k2", key |-> BytesNotPem]}

BuildKeyLists == SeqsUpTo(BuildInfos, MaxDecKeys)

InitBuild ==
    /\ path_rules = <<>>
    /\ rl = NoQuery
    /\ mw = MwOff
    /\ inner_calls = 0
    /\ jw = [pc |-> "config"]

\* JwtEncoder::try_from(config)
BuildEncoder(keys) ==
    /\ jw.pc = "config"
    /\ jw' = [pc |-> "built", what |-> "encoder", keys |-> keys,
              res |-> EncoderTryFrom([encoding_keys |-> keys])]
    /\ UNCHANGED <<path_rules, rl, mw, inner_calls>>

\* JwtDecoder::try_from(config), every key listed for issuer iss
BuildDecoder(iss, keys) ==
    /\ jw.pc = "config"
    /\ jw' = [pc |-> "built", what |-> "decoder", keys |-> keys,
              res |-> DecoderTryFrom([decoding_keys |-> [i \in 1..Len(keys) |-> <<iss, keys[i]>>],
                                      leeway |-> 0,
                                      reject_tokens_expiring_in_less_than |-> 0,
                                      audience |-> <<"web">>])]
    /\ UNCHANGED <<path_rules, rl, mw, inner_calls>>

NextBuild ==
    \/ jw.pc = "config" /\ \E keys \in BuildKeyLists : BuildEncoder(keys)
    \/ jw.pc = "config" /\ \E keys \in BuildKeyLists : BuildDecoder("A", keys)

SpecBuild == InitBuild /\ [][NextBuild]_vars

BdBuilt == jw.pc = "built"
BdFailing == {i \in 1..Len(jw.keys) : ~KeyInfoBuild(jw.keys[i]).ok}

\* C26: building the encoder or the decoder succeeds only if every key
\* descriptor converts into a key and at least one key results; otherwise
\* nothing is built and the failure carries the error of every failing
\* descriptor: a failing descriptor is never dropped to start with the rest.
C26_BuildAllOrNothing ==
    BdBuilt =>
        /\ jw.res.ok <=> (BdFailing = {} /\ jw.keys # <<>>)
        /\ ~jw.res.ok =>
              /\ jw.res.v = <<>>
              /\ \A i \in BdFailing :
                    \E j \in 1..Len(jw.res.errors) : jw.res.errors[j].key = jw.keys[i].key
              /\ Cardinality({j \in 1..Len(jw.res.errors) : jw.res.errors[j].key # None})
                    = Cardinality(BdFailing)

\* C26 witness: a configuration with one key that converts and one that does
\* not was refused, reporting the failing one.
C26_Witness ==
    /\ BdBuilt
    /\ jw.what = "encoder"
    /\ Len(jw.keys) = 2
    /\ Cardinality(BdFailing) = 1
    /\ ~jw.res.ok
    /\ Len(jw.res.errors) = 1

(***************************************************************************)
(* crab-vault-engine: FsDataEngine.  The directory below base_dir is       *)
(* [dirs, files]: the bucket directories and the content of each file      *)
(* <<bucket, object>>.  An operation yields [fs, res]: the directory       *)
(* afterwards and the EngineResult.                                        *)
(***************************************************************************)
EngineOk(v) == [ok |-> TRUE, err |-> "", v |-> v]
EngineErr(e) == [ok |-> FALSE, err |-> e, v |-> <<>>]

FilesIn(fs, bucket_name) == {f \in DOMAIN fs.files : f[1] = bucket_name}

\* FsDataEngine::create_bucket: create_dir_all
create_bucket(fs, bucket_name) ==
    [fs |-> [fs EXCEPT !.dirs = @ \cup {bucket_name}], res |-> EngineOk(<<>>)]

\* FsDataEngine::delete_bucket: remove_dir, whose errors are returned
delete_bucket(fs, bucket_name) ==
    IF bucket_name \notin fs.dirs THEN [fs |-> fs, res |-> EngineErr("Io(NotFound)")]
    ELSE IF FilesIn(fs, bucket_name) # {} THEN [fs |-> fs, res |-> EngineErr("BucketNotEmpty")]
    ELSE [fs |-> [fs EXCEPT !.dirs = @ \ {bucket_name}], res |-> EngineOk(<<>>)]

\* FsDataEngine::create_object: File::create, write_all, flush
create_object(fs, bucket_name, object_name, data) ==
    IF bucket_name \notin fs.dirs THEN [fs |-> fs, res |-> EngineErr("BucketNotFound")]
    ELSE [fs |-> [fs EXCEPT !.files = MapInsert(@, <<bucket_name, object_name>>, data)],
          res |-> EngineOk(<<>>)]

\* FsDataEngine::read_object
read_object(fs, bucket_name, object_name) ==
    IF <<bucket_name, object_name>> \notin DOMAIN fs.files
    THEN [fs |-> fs, res |-> EngineErr("ObjectNotFound")]
    ELSE [fs |-> fs, res |-> EngineOk(fs.files[<<bucket_name, object_name>>])]

\* FsDataEngine::delete_object: remove_file, NotFound counted as success
delete_object(fs, bucket_name, object_name) ==
    [fs |-> [fs EXCEPT !.files = [f \in DOMAIN @ \ {<<bucket_name, object_name>>} |-> @[f]]],
     res |-> EngineOk(<<>>)]

(***************************************************************************)
(* SpecFs: data operations are performed one after another on an engine    *)
(***************************************************************************)
MaxBuckets == 2    \* bucket names in use
MaxObjects == 1    \* object names in use

BucketNames == 1..MaxBuckets
ObjectNames == 1..MaxObjects
Datas == {"d1", "d2"}

\* DataEngine::new on an empty base_dir
FsNew == [dirs |-> {}, files |-> <<>>]

NoCall == [op |-> None, args |-> <<>>, res |-> EngineOk(<<>>), after |-> FsNew]

InitFs ==
    /\ path_rules = <<>>
    /\ rl = NoQuery
    /\ mw = MwOff
    /\ inner_calls = 0
    /\ jw = [pc |-> "engine", fs |-> FsNew, last |-> NoCall, prev |-> NoCall]

\* the call op(args) ended with outcome r; the call before it is remembered
FsCalled(op, args, r) ==
    /\ jw.pc = "engine"
    /\ jw' = [pc |-> "engine", fs |-> r.fs,
              last |-> [op |-> op, args |-> args, res |-> r.res, after |-> r.fs],
              prev |-> jw.last]
    /\ UNCHANGED <<path_rules, rl, mw, inner_calls>>

CallCreateBucket(b) == FsCalled("create_bucket", <<b>>, create_bucket(jw.fs, b))
CallDeleteBucket(b) == FsCalled("delete_bucket", <<b>>, delete_bucket(jw.fs, b))
CallCreateObject(b, o, d) == FsCalled("create_object", <<b, o, d>>, create_object(jw.fs, b, o, d))
CallReadObject(b, o) == FsCalled("read_object", <<b, o>>, read_object(jw.fs, b, o))
CallDeleteObject(b, o) == FsCalled("delete_object", <<b, o>>, delete_object(jw.fs, b, o))

NextFs ==
    \/ \E b \in BucketNames : CallCreateBucket(b)
    \/ \E b \in BucketNames : CallDeleteBucket(b)
    \/ \E b \in BucketNames, o \in ObjectNames, d \in Datas : CallCreateObject(b, o, d)
    \/ \E b \in BucketNames, o \in ObjectNames : CallReadObject(b, o)
    \/ \E b \in BucketNames, o \in ObjectNames : CallDeleteObject(b, o)

SpecFs == InitFs /\ [][NextFs]_vars

\* the last two calls were the same operation on the same arguments
FsTwice == jw.pc = "engine" /\ jw.last.op # None /\ jw.last.op = jw.prev.op
            /\ jw.last.args = jw.prev.args

\* C27: each data operation (create_bucket, delete_bucket, create_object,
\* read_object, delete_object) is idempotent: performed twice in succession
\* with the same arguments it returns the same result and leaves the same
\* state as performed once; deleting what is already gone succeeds.
C27_DataOperationsIdempotent ==
    FsTwice =>
        /\ jw.last.res = jw.prev.res
        /\ jw.last.after = jw.prev.after

\* the errors of the standard-claim validation
JwClaimErrors == {"TokenExpired", "TokenNotYetValid", "InvalidIssuer", "InvalidAudience",
                  "MissingClaim(exp)", "MissingClaim(nbf)", "MissingClaim(iss)",
                  "MissingClaim(aud)"}

\* the standard claims pass the decoder's validation at decode time
JwClaimsPass(claims) ==
    /\ ~LibExpired(claims.exp, jw.dec.validation, JwNow)
    /\ ~LibImmature(claims.nbf, jw.dec.validation, JwNow)
    /\ claims.iss \in jw.dec.validation.iss.v
    /\ LibAudienceOk(claims.aud, jw.dec.validation.aud.v)

\* C28: decode runs its stages in the order header/kid, key resolution by
\* (iss, kid), signature verification, standard-claim validation, and accepts
\* only after all of them pass; a token failing several stages is rejected
\* with the error of the earliest failing one: an unregistered (iss, kid)
\* with a bad signature gives InvalidIssuer, a bad signature on an expired
\* token gives InvalidSignature, not TokenExpired.
C28_EarliestFailingStage ==
    (JwDecoded /\ jw.tok.wf = "ok") =>
        /\ jw.res.ok =>
              /\ JwReadable /\ JwPair \in DOMAIN JwKeys
              /\ JwSignedWith(JwKeys[JwPair])
              /\ JwClaimsPass(jw.res.v)
        /\ ~jw.tok.kid.some => (~jw.res.ok /\ jw.res.err = "MissingClaim(kid)")
        /\ (JwReadable /\ JwPair \notin DOMAIN JwKeys) =>
              (~jw.res.ok /\ jw.res.err = "InvalidIssuer")
        /\ (JwReadable /\ JwPair \in DOMAIN JwKeys /\ ~JwSignedWith(JwKeys[JwPair])) =>
              (~jw.res.ok /\ jw.res.err = "InvalidSignature")
        /\ (/\ JwReadable /\ JwPair \in DOMAIN JwKeys /\ JwSignedWith(JwKeys[JwPair])
            /\ ~JwClaimsPass(JwtDeserialize(jw.tok.body).v)) =>
              (~jw.res.ok /\ jw.res.err \in JwClaimErrors)

(***************************************************************************)
(* crab-vault-engine: FsMetaEngine.  The metadata directory is             *)
(* [buckets, objects]: the buckets that have a metadata file and the       *)
(* metadata file of each <<bucket, object>> (the size it records).         *)
(***************************************************************************)
\* FsMetaEngine::read_bucket_meta
read_bucket_meta(ms, name) ==
    IF name \in ms.buckets THEN EngineOk(name) ELSE EngineErr("BucketMetaNotFound")

\* FsMetaEngine::create_object_meta
create_object_meta(ms, bucket_name, object_name, meta) ==
    [ms |-> [ms EXCEPT !.objects = MapInsert(@, <<bucket_name, object_name>>, meta)],
     res |-> EngineOk(<<>>)]

\* FsMetaEngine::read_object_meta
read_object_meta(ms, bucket_name, object_name) ==
    IF <<bucket_name, object_name>> \in DOMAIN ms.objects
    THEN EngineOk(ms.objects[<<bucket_name, object_name>>])
    ELSE EngineErr("ObjectMetaNotFound")

\* FsMetaEngine::delete_object_meta
delete_object_meta(ms, bucket_name, object_name) ==
    [ms |-> [ms EXCEPT !.objects = [f \in DOMAIN @ \ {<<bucket_name, object_name>>} |-> @[f]]],
     res |-> EngineOk(<<>>)]

(***************************************************************************)
(* SpecObj: the object handlers of the API serve concurrent requests on    *)
(* one bucket.  A handler advances by one engine call at a time (each call *)
(* is awaited); an engine call that writes may fail with an I/O error.     *)
(***************************************************************************)
\* the requests in flight, the bucket and the object they address, and the
\* Content-Length values a request may declare
ReqIds == {"r1", "r2"}
TheBucket == CHOOSE b \in BucketNames : \A c \in BucketNames : b <= c
TheObject == CHOOSE o \in ObjectNames : \A c \in ObjectNames : o <= c
DeclaredLengths == {0, MaxLen}
ReqIdle == [kind |-> None, pc |-> "idle"]

\* the Permission AuthMiddleware attached to the request
AttachedPerms ==
    {[MwNewRoot EXCEPT !.conditions.max_size = sz] :
        sz \in {NoSize} \cup {Some(n) : n \in 0..MaxSize}}

\* the stores when the server starts serving: the bucket exists, the object
\* does not, or exists with its metadata
InitialStores ==
    {[fs |-> [dirs |-> {TheBucket}, files |-> <<>>],
      ms |-> [buckets |-> {TheBucket}, objects |-> <<>>]]}
    \cup {[fs |-> [dirs |-> {TheBucket}, files |-> [f \in {<<TheBucket, TheObject>>} |-> 0]],
           ms |-> [buckets |-> {TheBucket}, objects |-> [f \in {<<TheBucket, TheObject>>} |-> 0]]]}

InitObj ==
    /\ path_rules = <<>>
    /\ rl = NoQuery
    /\ mw = MwOff
    /\ inner_calls = 0
    /\ \E st \in InitialStores :
          jw = [pc |-> "serving", fs |-> st.fs, ms |-> st.ms, reqs |-> [i \in ReqIds |-> ReqIdle]]

ObjStep(i, req, fs, ms) ==
    /\ jw' = [pc |-> "serving", fs |-> fs, ms |-> ms, reqs |-> [jw.reqs EXCEPT ![i] = req]]
    /\ UNCHANGED <<path_rules, rl, mw, inner_calls>>

ObjDone(req, resp) == [req EXCEPT !.pc = "done", !.resp = resp]

\* upload_object: the extractors; the request declares Content-Length
\* declared and its body, as received, is n bytes long
UploadExtract(i, o, perm, declared, n) ==
    /\ jw.reqs[i].pc = "idle"
    /\ LET r == RestrictedBytesFromRequest(Some(perm), n)
           req == [kind |-> "upload", pc |-> "read_bucket_meta", obj |-> o, perm |-> perm,
                   declared |-> declared, n |-> n, resp |-> "", calls |-> 0, wrote |-> FALSE]
       IN  ObjStep(i, IF r = "ok" THEN req ELSE ObjDone(req, r), jw.fs, jw.ms)

\* upload_object: state.meta_src.read_bucket_meta(..).await?
UploadReadBucketMeta(i) ==
    /\ jw.reqs[i].kind = "upload" /\ jw.reqs[i].pc = "read_bucket_meta"
    /\ LET r == read_bucket_meta(jw.ms, TheBucket)
           req == [jw.reqs[i] EXCEPT !.calls = @ + 1]
       IN  ObjStep(i, IF r.ok THEN [req EXCEPT !.pc = "create_object"] ELSE ObjDone(req, r.err),
                   jw.fs, jw.ms)

\* upload_object: state.data_src.create_object(..).await?
UploadCreateObject(i, io_error) ==
    /\ jw.reqs[i].kind = "upload" /\ jw.reqs[i].pc = "create_object"
    /\ LET r == create_object(jw.fs, TheBucket, jw.reqs[i].obj, jw.reqs[i].n)
           req == [jw.reqs[i] EXCEPT !.calls = @ + 1]
       IN  IF io_error THEN ObjStep(i, ObjDone(req, "Io"), jw.fs, jw.ms)
           ELSE IF ~r.res.ok THEN ObjStep(i, ObjDone(req, r.res.err), jw.fs, jw.ms)
           ELSE ObjStep(i, [req EXCEPT !.pc = "create_object_meta", !.wrote = TRUE], r.fs, jw.ms)

\* upload_object: state.meta_src.create_object_meta(..).await?
UploadCreateObjectMeta(i, io_error) ==
    /\ jw.reqs[i].kind = "upload" /\ jw.reqs[i].pc = "create_object_meta"
    /\ LET r == create_object_meta(jw.ms, TheBucket, jw.reqs[i].obj, jw.reqs[i].n)
           req == [jw.reqs[i] EXCEPT !.calls = @ + 1]
       IN  IF io_error THEN ObjStep(i, ObjDone(req, "Io"), jw.fs, jw.ms)
           ELSE ObjStep(i, ObjDone(req, "CREATED"), jw.fs, r.ms)

\* delete_object: state.data_src.delete_object(..).await?
DeleteObject(i, o, io_error) ==
    /\ jw.reqs[i].pc = "idle"
    /\ LET r == delete_object(jw.fs, TheBucket, o)
           req == [kind |-> "delete", pc |-> "delete_object_meta", obj |-> o, resp |-> ""]
       IN  IF io_error THEN ObjStep(i, ObjDone(req, "Io"), jw.fs, jw.ms)
           ELSE ObjStep(i, req, r.fs, jw.ms)

\* delete_object: state.meta_src.delete_object_meta(..).await?
DeleteObjectMeta(i, io_error) ==
    /\ jw.reqs[i].kind = "delete" /\ jw.reqs[i].pc = "delete_object_meta"
    /\ LET r == delete_object_meta(jw.ms, TheBucket, jw.reqs[i].obj)
       IN  IF io_error THEN ObjStep(i, ObjDone(jw.reqs[i], "Io"), jw.fs, jw.ms)
           ELSE ObjStep(i, ObjDone(jw.reqs[i], "NO_CONTENT"), jw.fs, r.ms)

\* get_object: state.meta_src.read_object_meta(..).await?
GetReadObjectMeta(i, o) ==
    /\ jw.reqs[i].pc = "idle"
    /\ LET r == read_object_meta(jw.ms, TheBucket, o)
           req == [kind |-> "get", pc |-> "read_object", obj |-> o, resp |-> ""]
       IN  ObjStep(i, IF r.ok THEN req ELSE ObjDone(req, r.err), jw.fs, jw.ms)

\* get_object: state.data_src.read_object(..).await?
GetReadObject(i) ==
    /\ jw.reqs[i].kind = "get" /\ jw.reqs[i].pc = "read_object"
    /\ LET r == read_object(jw.fs, TheBucket, jw.reqs[i].obj)
       IN  ObjStep(i, ObjDone(jw.reqs[i], IF r.res.ok THEN "OK" ELSE r.res.err), jw.fs, jw.ms)

NextObj ==
    \/ \E i \in ReqIds, perm \in AttachedPerms, declared \in DeclaredLengths, n \in -1..MaxLen :
          UploadExtract(i, TheObject, perm, declared, n)
    \/ \E i \in ReqIds : UploadReadBucketMeta(i)
    \/ \E i \in ReqIds, io_error \in BOOLEAN : UploadCreateObject(i, io_error)
    \/ \E i \in ReqIds, io_error \in BOOLEAN : UploadCreateObjectMeta(i, io_error)
    \/ \E i \in ReqIds, io_error \in BOOLEAN : DeleteObject(i, TheObject, io_error)
    \/ \E i \in ReqIds, io_error \in BOOLEAN : DeleteObjectMeta(i, io_error)
    \/ \E i \in ReqIds : GetReadObjectMeta(i, TheObject)
    \/ \E i \in ReqIds : GetReadObject(i)

SpecObj == InitObj /\ [][NextObj]_vars

ObServing == jw.pc = "serving"

\* C29: upload_object and delete_object change an object's data and its
\* metadata atomically: no concurrent request, and no state left behind
\* when a handler fails part-way, shows an object whose data exists without
\* its metadata or whose metadata exists without its data.
C29_DataAndMetaTogether ==
    ObServing =>
        (<<TheBucket, TheObject>> \in DOMAIN jw.fs.files)
            <=> (<<TheBucket, TheObject>> \in DOMAIN jw.ms.objects)

ObUploads == {i \in ReqIds : jw.reqs[i].kind = "upload"}
ObMaxSize(i) == jw.reqs[i].perm.conditions.max_size

=============================================================================
